---------------------------- MODULE Spec2Model ----------------------------
(***************************************************************************)
(* State-machine model of the piano-roll plugin (src/src/piano-roll.ts):   *)
(* the note store, the coordinate mapper and the pointer-interaction       *)
(* handlers.                                                               *)
(*                                                                         *)
(* Units.  Times are integers counting ticks of 0.05 s, so that the        *)
(* program's 0.05 s, 0.1 s and 0.25 s are 1, 2 and 5 ticks.  Abscissas are *)
(* CSS pixels; the host width is a multiple of the host duration and the   *)
(* pointer abscissas are multiples of Width/Duration, so timeToPx and      *)
(* pxToTime are exact.  Ordinates are rationals with the number of display *)
(* rows as denominator (noteHeight = height / rows): every ordinate is     *)
(* held as its numerator over Rows(params).  Floating-point rounding is    *)
(* not modelled.                                                           *)
(*                                                                         *)
(* Note objects have identity: heap maps an object id to its fields, and   *)
(* the store, the selection and the drag state hold ids.  0 is null.       *)
(***************************************************************************)
EXTENDS Integers, Sequences, FiniteSets, TLC

\* ------------------------------------------------------------------ bounds
Duration == 30            \* host duration in ticks (1.5 s)
Width == 2 * Duration     \* host wrapper.scrollWidth in px
MaxObjects == 3           \* note objects alive at once
MaxSteps == 6             \* events of a gesture run
MaxEdits == 4             \* events of an editing run
MaxImports == 2           \* loads of an import run
MaxSamples == 20          \* samples of an audio buffer in the frame loop
MaxHop == 5               \* hop size of the frame loop

\* ------------------------------------------------------ program constants
EDGE_THRESHOLD == 8
MIN_NOTE_DURATION == 1
Height == 200
DefaultMinPitch == 21
DefaultMaxPitch == 108
SnapSampleRate == 8192    \* audioBuffer.sampleRate of the decoded audio
DefaultFftSize == 1024
SpectrogramOverlap == 75  \* options.spectrogramOverlap, in hundredths

\* spectrogramData = []
NoFrames == [frames |-> 0, bins |-> 0]

Null == [null |-> TRUE]

Max(a, b) == IF a >= b THEN a ELSE b
Min(a, b) == IF a <= b THEN a ELSE b

\* Math.floor(num / den) and Math.round(num / den) for den > 0
\* (Math.round rounds halves up).
FloorDiv(num, den) == num \div den
RoundDiv(num, den) == (2 * num + den) \div (2 * den)
\* Math.ceil(num / den) for den > 0
CeilDiv(num, den) == -((-num) \div den)

Range(s) == {s[i] : i \in 1..Len(s)}

\* Array.prototype.indexOf, 0-based, -1 when absent
IndexOf(s, e) ==
    IF e \in Range(s) THEN (CHOOSE i \in 1..Len(s) : s[i] = e /\ \A j \in 1..(i - 1) : s[j] # e) - 1
    ELSE -1

\* the elements of a finite set of integers, ascending
RECURSIVE SortedSeq(_)
SortedSeq(S) ==
    IF S = {} THEN <<>>
    ELSE LET m == CHOOSE a \in S : \A b \in S : a <= b
         IN  <<m>> \o SortedSeq(S \ {m})

\* the record has the field
Has(input, f) == f \in DOMAIN input

\* A string is the sequence of its characters.
DecimalDigits == <<"0", "1", "2", "3", "4", "5", "6", "7", "8", "9">>

\* the longest prefix of s made of decimal digits
RECURSIVE digitPrefix(_)
digitPrefix(s) ==
    IF s # <<>> /\ Head(s) \in Range(DecimalDigits)
    THEN <<Head(s)>> \o digitPrefix(Tail(s))
    ELSE <<>>

\* the number a sequence of decimal digits spells
RECURSIVE digitsValue(_)
digitsValue(ds) ==
    IF ds = <<>> THEN 0
    ELSE 10 * digitsValue(SubSeq(ds, 1, Len(ds) - 1)) + IndexOf(DecimalDigits, ds[Len(ds)])

\* ------------------------------------------------------------- note-utils
NOTE_NAMES == <<"C", "C#", "D", "D#", "E", "F", "F#", "G", "G#", "A", "A#", "B">>

\* variant of pitchToNoteName: the octave changes at A instead of C
pitchToNoteNameFromA(pitch) == <<NOTE_NAMES[(pitch % 12) + 1], ((pitch + 3) \div 12) - 1>>

\* the name is the pair (pitch-class name, octave)
pitchToNoteName(pitch) == <<NOTE_NAMES[(pitch % 12) + 1], (pitch \div 12) - 1>>

\* variant: the pitch is kept as computed
unclampedPitch(pitch) == pitch

\* variant: only pitches below 0 are brought back
clampPitchBelow(pitch) == Max(0, pitch)

\* the argument is already an integer wherever the model calls it
clampPitch(pitch) == Max(0, Min(127, pitch))

isProbablyHz(value) == value > 127

\* Math.round(hzToMidi(hz)): 0 for hz <= 0, else 69 + 12 * log2(hz / 440)
\* rounded, tabulated on the frequencies the inputs use
hzToMidiQuantized(hz) ==
    CASE hz <= 0 -> 0
      [] hz = 60 -> 35
      [] hz = 62 -> 35
      [] hz = 64 -> 36
      [] hz = 127 -> 47
      [] hz = 128 -> 48
      [] hz = 200 -> 55
      [] hz = 220 -> 57
      [] hz = 440 -> 69
      [] hz = 880 -> 81
      [] hz = 20000 -> 135

\* a function returns a value or throws an error
Return(v) == [value |-> v]

Thrown(message) == [error |-> message]

\* variant: a name that does not match is read as pitch 0
noteNameToPitchLenient(name) ==
    LET afterNote == IF name = <<>> THEN <<>> ELSE Tail(name)
        digits == SelectSeq(afterNote, LAMBDA c : c \in Range(DecimalDigits))
    IN  Return(IF digits = <<>> \/ name[1] \notin Range(NOTE_NAMES) THEN 0
               ELSE (digitsValue(digits) + 1) * 12 + IndexOf(NOTE_NAMES, name[1]))

\* name.match(/^([A-Ga-g])(#|b)?(-?\d+)$/), then pitch class and octave
noteNameToPitch(name) ==
    LET lower == <<"c", "d", "e", "f", "g", "a", "b">>
        upper == <<"C", "D", "E", "F", "G", "A", "B">>
        hasNote == name # <<>> /\ name[1] \in Range(lower) \cup Range(upper)
        afterNote == IF name = <<>> THEN <<>> ELSE Tail(name)
        accidental == IF afterNote # <<>> /\ afterNote[1] \in {"#", "b"}
                      THEN afterNote[1] ELSE ""
        afterAccidental == IF accidental # "" THEN Tail(afterNote) ELSE afterNote
        negative == afterAccidental # <<>> /\ afterAccidental[1] = "-"
        digits == IF negative THEN Tail(afterAccidental) ELSE afterAccidental
    IN  IF ~(hasNote /\ digits # <<>> /\ digitPrefix(digits) = digits)
        THEN Thrown("Invalid note name")
        ELSE LET note == IF name[1] \in Range(lower)
                         THEN upper[IndexOf(lower, name[1]) + 1] ELSE name[1]
                 octave == (IF negative THEN -1 ELSE 1) * digitsValue(digits)
                 natural == IndexOf(NOTE_NAMES, note)
                 shifted == natural + (IF accidental = "#" THEN 1 ELSE 0)
                                    - (IF accidental = "b" THEN 1 ELSE 0)
                 \* ((pitchClass % 12) + 12) % 12
                 pitchClass == shifted % 12
             IN  Return((octave + 1) * 12 + pitchClass)

\* the value of input.pitch with its type: the model holds a pitch given
\* as a string in the field pitchName, a numeric one in the field pitch
PitchValue(input) ==
    IF Has(input, "pitchName") THEN [string |-> input.pitchName]
    ELSE [number |-> input.pitch]

toMidiPitch(pitch, forceHz) ==
    IF Has(pitch, "string") THEN noteNameToPitch(pitch.string)
    ELSE IF forceHz \/ isProbablyHz(pitch.number)
         THEN Return(hzToMidiQuantized(pitch.number))
         ELSE Return(pitch.number)

\* ------------------------------------------------------ coordinate mapper
\* params: [width, height, duration, minPitch, maxPitch, isFolded, usedPitches]
getDisplayPitches(params) ==
    IF params.isFolded /\ Len(params.usedPitches) > 0
    THEN params.usedPitches
    ELSE [i \in 1..(params.maxPitch - params.minPitch + 1) |-> params.minPitch + i - 1]

\* getDisplayPitches().length, without building the array
Rows(params) ==
    IF params.isFolded /\ Len(params.usedPitches) > 0
    THEN Len(params.usedPitches)
    ELSE Max(0, params.maxPitch - params.minPitch + 1)

timeToPx(time, params) ==
    IF params.duration = 0 THEN 0
    ELSE (time * params.width) \div params.duration

\* The quotient px / width is a JavaScript number: with width 0 it is NaN
\* (px = 0) or an infinity, and its product with the duration is NaN again
\* when the duration is 0.  A result is [fin |-> ticks], NaN or Infinity(sign).
NaN == [nan |-> TRUE]

Infinity(sign) == [inf |-> sign]

pxToTime(px, params) ==
    IF params.width = 0
    THEN IF px = 0 \/ params.duration = 0 THEN NaN
         ELSE Infinity(IF (px > 0) = (params.duration > 0) THEN 1 ELSE -1)
    ELSE [fin |-> (px * params.duration) \div params.width]

\* numerator over Rows(params) of the row's top ordinate
pitchToPx(pitch, params) ==
    LET pitches == getDisplayPitches(params)
        n == Rows(params)
        h == params.height
    IN  IF params.isFolded
        THEN LET idx == IndexOf(pitches, pitch)
             IN  IF idx = -1 THEN (-100) * n ELSE h * n - (idx + 1) * h
        ELSE h * n - (pitch - params.minPitch + 1) * h

\* numerator over Rows(params) of noteHeight - 1
NoteH(params) == params.height - Rows(params)

\* variant: the unfolded pitch is rounded down
pxToPitchFloor(yN, params) ==
    LET pitches == getDisplayPitches(params)
        n == Rows(params)
        h == params.height
    IN  IF params.isFolded
        THEN LET idx == FloorDiv(h * n - yN, h)
             IN  IF idx < 0 THEN pitches[1]
                 ELSE IF idx >= n THEN pitches[n]
                 ELSE pitches[idx + 1]
        ELSE clampPitch(FloorDiv((params.minPitch - 1) * h + (h * n - yN), h))

\* yN: numerator over Rows(params) of the ordinate
pxToPitch(yN, params) ==
    LET pitches == getDisplayPitches(params)
        n == Rows(params)
        h == params.height
    IN  IF params.isFolded
        THEN LET idx == FloorDiv(h * n - yN, h)
             IN  IF idx < 0 THEN pitches[1]
                 ELSE IF idx >= n THEN pitches[n]
                 ELSE pitches[idx + 1]
        ELSE clampPitch(RoundDiv((params.minPitch - 1) * h + (h * n - yN), h))


\* ------------------------------------------------------------------ state
VARIABLES
    heap,           \* note objects: id -> fields
    notes,          \* this.notes: sequence of ids
    minPitch, maxPitch, trackCount,
    isFolded, usedPitches,
    hoveredNote,    \* id, 0 for null
    selectedNotes,  \* Set<PianoRollNote> as the sequence of ids in insertion order
    dragState,      \* Null or the drag record
    selectionBox,   \* Null or the box record
    docListeners,   \* document listeners: [mousemove, mouseup], in attach order
    containerListeners, \* event types the container has a plugin listener for
    subscribed,     \* the host-event subscriptions are in place
    activeNotes,    \* Set<PianoRollNote> under the playhead, ids in insertion order
    currentTime,
    currentFftSize,
    cachedAudioBuffer,  \* Null or the decoded audio: [length]
    spectrogramData,    \* the frame matrix by its shape: [frames, bins]
    showSpectrogram,    \* options.showSpectrogram
    previewEnabled,
    snapEnabled,    \* the Snap checkbox
    steps,          \* events handled so far
    lastOp,         \* the event or API call handled last
    lastArgs,       \* its arguments, where a claim is about them (else Null)
    emitted,        \* the events it emitted, in order
    lastHover,      \* the note of the latest notehover so far (0: null, -1: none yet)
    fftFrame        \* Null, or the frame calculateSpectrogram is transforming

\* the plugin's state and its trace
pluginVars == <<heap, notes, minPitch, maxPitch, trackCount, isFolded, usedPitches,
                hoveredNote, selectedNotes, dragState, selectionBox, docListeners,
                containerListeners, subscribed, activeNotes, currentTime,
                currentFftSize, cachedAudioBuffer, spectrogramData, showSpectrogram,
                previewEnabled, snapEnabled, steps, lastOp, lastArgs, emitted, lastHover>>

vars == <<pluginVars, fftFrame>>

\* The plugin state as one record, so that handlers compose.
Cur ==
    [heap |-> heap, notes |-> notes, minPitch |-> minPitch, maxPitch |-> maxPitch,
     trackCount |-> trackCount, isFolded |-> isFolded, usedPitches |-> usedPitches,
     hoveredNote |-> hoveredNote, selectedNotes |-> selectedNotes,
     dragState |-> dragState, selectionBox |-> selectionBox,
     docListeners |-> docListeners, containerListeners |-> containerListeners,
     subscribed |-> subscribed, activeNotes |-> activeNotes,
     currentTime |-> currentTime, currentFftSize |-> currentFftSize,
     cachedAudioBuffer |-> cachedAudioBuffer, spectrogramData |-> spectrogramData,
     showSpectrogram |-> showSpectrogram,
     previewEnabled |-> previewEnabled, snapEnabled |-> snapEnabled, emitted |-> <<>>,
     lastHover |-> lastHover,
     error |-> Null,         \* the error the handler throws, if any
     previewed |-> <<>>]     \* the pitches it passes to the preview synth

Params(S) ==
    [width |-> Width, height |-> Height, duration |-> Duration,
     minPitch |-> S.minPitch, maxPitch |-> S.maxPitch,
     isFolded |-> S.isFolded, usedPitches |-> S.usedPitches]

\* an emitted event: the note argument (id and fields at emission), the
\* snapshot argument and the list argument, each empty when not passed
Ev(type, note, val, orig, list) ==
    [type |-> type, note |-> note, val |-> val, orig |-> orig, list |-> list]

Emit(S, ev) == [S EXCEPT !.emitted = Append(@, ev)]

\* ids referenced from outside the store; the note of the latest notehover
\* is kept so that a later note is told apart from it
Held(S) ==
    Range(S.selectedNotes)
      \cup Range(S.activeNotes)
      \cup (IF S.hoveredNote = 0 THEN {} ELSE {S.hoveredNote})
      \cup (IF S.lastHover > 0 THEN {S.lastHover} ELSE {})
      \cup (IF S.dragState = Null THEN {}
            ELSE {S.dragState.note}
                   \cup (IF S.dragState.multiDrag = Null THEN {}
                         ELSE Range(S.dragState.multiDrag.notes)))

\* unreferenced objects are garbage
Collect(S) ==
    [S EXCEPT !.heap = [id \in (Range(S.notes) \cup Held(S)) |-> S.heap[id]]]

\* ------------------------------------------------------------- note store
\* variant: the list is left in argument order
KeepOrder(ids, h) == ids

\* this.notes.sort((a, b) => a.onset - b.onset): stable
RECURSIVE SortByOnset(_, _)
SortByOnset(ids, h) ==
    IF Len(ids) <= 1 THEN ids
    ELSE LET rest == SortByOnset(SubSeq(ids, 1, Len(ids) - 1), h)
             last == ids[Len(ids)]
             k == Cardinality({i \in 1..Len(rest) : h[rest[i]].onset <= h[last].onset})
         IN  SubSeq(rest, 1, k) \o <<last>> \o SubSeq(rest, k + 1, Len(rest))

updateUsedPitches(S) ==
    [S EXCEPT !.usedPitches = SortedSeq({S.heap[id].pitch : id \in Range(S.notes)})]

\* variant: the padded range is not cut to the MIDI range
detectPitchRangeUncut(S) ==
    IF Len(S.notes) = 0
    THEN [S EXCEPT !.minPitch = DefaultMinPitch, !.maxPitch = DefaultMaxPitch]
    ELSE LET pitches == {S.heap[id].pitch : id \in Range(S.notes)}
             minNote == CHOOSE a \in pitches : \A b \in pitches : a <= b
             maxNote == CHOOSE a \in pitches : \A b \in pitches : a >= b
         IN  [S EXCEPT !.minPitch = FloorDiv(minNote - 2, 12) * 12,
                       !.maxPitch = CeilDiv(maxNote + 2, 12) * 12 + 11]

detectPitchRange(S) ==
    IF Len(S.notes) = 0
    THEN [S EXCEPT !.minPitch = DefaultMinPitch, !.maxPitch = DefaultMaxPitch]
    ELSE LET pitches == {S.heap[id].pitch : id \in Range(S.notes)}
             minNote == CHOOSE a \in pitches : \A b \in pitches : a <= b
             maxNote == CHOOSE a \in pitches : \A b \in pitches : a >= b
         IN  [S EXCEPT !.minPitch = Max(0, FloorDiv(minNote - 2, 12) * 12),
                       !.maxPitch = Min(127, CeilDiv(maxNote + 2, 12) * 12 + 11)]

\* velocities are numerators over 1270 (0.8 is 1016; a MIDI velocity v is v * 1270)
normalizeNote(input, pitchIsHz) ==
    LET midi == toMidiPitch(PitchValue(input), pitchIsHz)
    IN  IF Has(midi, "error") THEN midi ELSE
    LET pitch == clampPitch(midi.value)
        onset == input.onset
        duration ==
            IF Has(input, "duration") THEN input.duration
            ELSE IF Has(input, "offset") /\ input.offset # 0
                 THEN input.offset - input.onset
                 ELSE 2
        offset == IF Has(input, "offset") THEN input.offset ELSE onset + duration
        velocity == IF Has(input, "velocity") THEN input.velocity ELSE 1016
    IN  [pitch |-> pitch, name |-> pitchToNoteName(pitch),
         onset |-> onset, offset |-> offset, duration |-> duration,
         velocity |-> IF velocity > 1270 THEN velocity \div 127 ELSE velocity,
         track |-> IF Has(input, "track") THEN input.track ELSE 0,
         channel |-> IF Has(input, "channel") THEN input.channel ELSE 0]

\* the k smallest ids not in `used`
FreshIds(used, k) == SubSeq(SortedSeq((1..MaxObjects) \ used), 1, k)

\* ------------------------------------------------------------ hit-testing
NoteX(S, id) == timeToPx(S.heap[id].onset, Params(S))

NoteW(S, id) == Max(timeToPx(S.heap[id].offset, Params(S)) - NoteX(S, id), 2)

\* the note passes the pitch-range and fold filters of the hit test
Shown(S, id) ==
    /\ S.heap[id].pitch >= S.minPitch
    /\ S.heap[id].pitch <= S.maxPitch
    /\ (S.isFolded => S.heap[id].pitch \in Range(S.usedPitches))

\* variant: only the upper half of a note's rectangle is hit
findNoteUpperHalf(S, x, y) ==
    LET P == Params(S)
        n == Rows(P)
        noteH == NoteH(P)
        hit(id) ==
            LET noteX == timeToPx(S.heap[id].onset, P)
                noteW == Max(timeToPx(S.heap[id].offset, P) - noteX, 2)
                noteY == pitchToPx(S.heap[id].pitch, P)
            IN  /\ Shown(S, id)
                /\ x >= noteX
                /\ x <= noteX + noteW
                /\ y * n >= noteY
                /\ 2 * y * n <= 2 * noteY + noteH
        hits == {i \in 1..Len(S.notes) : hit(S.notes[i])}
    IN  IF hits = {} THEN 0
        ELSE S.notes[CHOOSE i \in hits : \A j \in hits : i <= j]

\* variant: the last matching note of the list is returned
findLastNoteAtPosition(S, x, y) ==
    LET P == Params(S)
        n == Rows(P)
        noteH == NoteH(P)
        hit(id) ==
            LET noteX == timeToPx(S.heap[id].onset, P)
                noteW == Max(timeToPx(S.heap[id].offset, P) - noteX, 2)
                noteY == pitchToPx(S.heap[id].pitch, P)
            IN  /\ Shown(S, id)
                /\ x >= noteX
                /\ x <= noteX + noteW
                /\ y * n >= noteY
                /\ y * n <= noteY + noteH
        hits == {i \in 1..Len(S.notes) : hit(S.notes[i])}
    IN  IF hits = {} THEN 0
        ELSE S.notes[CHOOSE i \in hits : \A j \in hits : i >= j]

findNoteAtPosition(S, x, y) ==
    LET P == Params(S)
        n == Rows(P)
        noteH == NoteH(P)
        hit(id) ==
            LET noteX == timeToPx(S.heap[id].onset, P)
                noteW == Max(timeToPx(S.heap[id].offset, P) - noteX, 2)
                noteY == pitchToPx(S.heap[id].pitch, P)
            IN  /\ Shown(S, id)
                /\ x >= noteX
                /\ x <= noteX + noteW
                /\ y * n >= noteY
                /\ y * n <= noteY + noteH
        hits == {i \in 1..Len(S.notes) : hit(S.notes[i])}
    IN  IF hits = {} THEN 0
        ELSE S.notes[CHOOSE i \in hits : \A j \in hits : i <= j]

\* variant: the right edge is tested first
getDragModeRightFirst(S, x, id) ==
    IF NoteX(S, id) + NoteW(S, id) - x < EDGE_THRESHOLD THEN "resize-right"
    ELSE IF x - NoteX(S, id) < EDGE_THRESHOLD THEN "resize-left"
    ELSE "move"

getDragMode(S, x, id) ==
    IF x - NoteX(S, id) < EDGE_THRESHOLD THEN "resize-left"
    ELSE IF NoteX(S, id) + NoteW(S, id) - x < EDGE_THRESHOLD THEN "resize-right"
    ELSE "move"

\* ------------------------------------------------------ listener registry
\* addEventListener ignores a listener that is already attached
AddListener(list, h) == IF h \in Range(list) THEN list ELSE Append(list, h)

\* variant: the listener stays attached
KeepListener(list, h) == list

RemoveListener(list, h) == SelectSeq(list, LAMBDA e : e # h)

\* Array.prototype.splice(index, 1), index 0-based
RemoveAt(s, index) == SubSeq(s, 1, index) \o SubSeq(s, index + 2, Len(s))

\* Set.prototype.add
SetAdd(s, e) == IF e \in Range(s) THEN s ELSE Append(s, e)

\* --------------------------------------------------------------- handlers
deleteNote(S, note) ==
    LET index == IndexOf(S.notes, note)
    IN  IF index = -1 THEN S
        ELSE LET S1 == updateUsedPitches([S EXCEPT !.notes = RemoveAt(@, index)])
                 S2 == Emit(S1, Ev("notedelete", note, S.heap[note], Null, <<>>))
             IN  Emit(S2, Ev("noteschange", 0, Null, Null, <<>>))

onMouseMove(S, x, y) ==
    IF S.dragState # Null THEN S
    ELSE LET note == findNoteAtPosition(S, x, y)
         IN  IF note # S.hoveredNote
             THEN Emit([S EXCEPT !.hoveredNote = note],
                       Ev("notehover", note, IF note = 0 THEN Null ELSE S.heap[note], Null, <<>>))
             ELSE S

onMouseLeave(S) == [S EXCEPT !.hoveredNote = 0]

onMouseDown(S, x, y, shiftKey) ==
    LET note == findNoteAtPosition(S, x, y)
        P == Params(S)
    IN  IF note = 0
        THEN LET S1 == IF ~shiftKey
                       THEN Emit([S EXCEPT !.selectedNotes = <<>>],
                                 Ev("selectionchange", 0, Null, Null, <<>>))
                       ELSE S
             IN  [S1 EXCEPT
                    !.selectionBox = [startX |-> x, startY |-> y, endX |-> x, endY |-> y,
                                      active |-> TRUE],
                    !.docListeners =
                        [mousemove |-> AddListener(@.mousemove, "onSelectionDrag"),
                         mouseup |-> AddListener(@.mouseup, "onSelectionEnd")]]
        ELSE IF shiftKey THEN deleteNote(S, note)
        ELSE LET mode == getDragMode(S, x, note)
                 multi == mode = "move" /\ note \in Range(S.selectedNotes)
                            /\ Len(S.selectedNotes) > 1
             IN  [S EXCEPT
                    !.dragState =
                        [note |-> note,
                         originalNote |-> S.heap[note],
                         mode |-> mode,
                         startX |-> x,
                         startY |-> y,
                         offsetX |-> x - NoteX(S, note),
                         offsetY |-> [num |-> y * Rows(P) - pitchToPx(S.heap[note].pitch, P),
                                      den |-> Rows(P)],
                         lastPreviewPitch |-> S.heap[note].pitch,
                         multiDrag |->
                            IF multi
                            THEN [notes |-> S.selectedNotes,
                                  originals |-> [i \in 1..Len(S.selectedNotes) |->
                                                    S.heap[S.selectedNotes[i]]]]
                            ELSE Null],
                    !.docListeners =
                        [mousemove |-> AddListener(@.mousemove, "onDragMove"),
                         mouseup |-> AddListener(@.mouseup, "onDragEnd")]]

\* variant: the preview plays the pitch the note had at pointer-down
previewOriginalPitch(S, pitch) ==
    IF ~S.previewEnabled THEN S
    ELSE [S EXCEPT !.previewed = Append(@, S.dragState.originalNote.pitch)]

\* the preview note is triggered on the synth
previewDragPitch(S, pitch) ==
    IF ~S.previewEnabled THEN S ELSE [S EXCEPT !.previewed = Append(@, pitch)]

\* variant: the delta is taken from where the note is now
deltaTimeFromNote(S, x) ==
    pxToTime(x - S.dragState.offsetX, Params(S)).fin - S.heap[S.dragState.note].onset

\* the delta from the original position
deltaTime(S, x) ==
    pxToTime(x - S.dragState.offsetX, Params(S)).fin - S.dragState.originalNote.onset

onDragMove(S, x, y) ==
    IF S.dragState = Null THEN S
    ELSE
    LET d == S.dragState
        P == Params(S)
        cur == S.heap[d.note]
        duration == Duration
    IN  IF d.mode = "move"
        THEN LET newPitch == pxToPitch(y * Rows(P), P)
                 deltaPitch == newPitch - d.originalNote.pitch
                 preview == S.previewEnabled /\ newPitch # d.lastPreviewPitch
             IN  IF d.multiDrag # Null
                 THEN LET md == d.multiDrag
                          moved(i) ==
                              LET n == S.heap[md.notes[i]]
                                  orig == md.originals[i]
                                  noteDuration == orig.duration
                                  newOnset == Max(0, Min(duration - noteDuration,
                                                         orig.onset + deltaTime(S, x)))
                                  targetPitch == clampPitch(orig.pitch + deltaPitch)
                              IN  [n EXCEPT
                                     !.onset = newOnset,
                                     !.offset = newOnset + noteDuration,
                                     !.pitch = targetPitch,
                                     !.name = IF n.pitch # targetPitch
                                              THEN pitchToNoteName(targetPitch) ELSE @]
                          S1 == [S EXCEPT
                                   !.heap = [id \in DOMAIN S.heap |->
                                               IF id \in Range(md.notes)
                                               THEN moved(IndexOf(md.notes, id) + 1)
                                               ELSE S.heap[id]]]
                      IN  IF preview
                          THEN [previewDragPitch(S1, newPitch) EXCEPT
                                  !.dragState.lastPreviewPitch = newPitch]
                          ELSE S1
                 ELSE LET noteDuration == cur.duration
                          newOnset == Max(0, Min(duration - noteDuration,
                                                 pxToTime(x - d.offsetX, P).fin))
                          S1 == [S EXCEPT
                                   !.heap[d.note] =
                                       [cur EXCEPT
                                          !.onset = newOnset,
                                          !.offset = newOnset + noteDuration,
                                          !.pitch = newPitch,
                                          !.name = IF cur.pitch # newPitch
                                                   THEN pitchToNoteName(newPitch) ELSE @]]
                      IN  IF cur.pitch # newPitch /\ preview
                          THEN [previewDragPitch(S1, newPitch) EXCEPT
                                  !.dragState.lastPreviewPitch = newPitch]
                          ELSE S1
        ELSE IF d.mode = "resize-left"
        THEN LET maxOnset == cur.offset - MIN_NOTE_DURATION
                 newOnset == Max(0, Min(maxOnset, pxToTime(x, P).fin))
             IN  [S EXCEPT !.heap[d.note] =
                     [cur EXCEPT !.onset = newOnset, !.duration = cur.offset - newOnset]]
        ELSE LET minOffset == cur.onset + MIN_NOTE_DURATION
                 newOffset == Max(minOffset, Min(duration, pxToTime(x, P).fin))
             IN  [S EXCEPT !.heap[d.note] =
                     [cur EXCEPT !.offset = newOffset, !.duration = newOffset - cur.onset]]

\* variant: a change of pitch alone does not count
hasChangedTimesOnly(n, orig) ==
    n.onset # orig.onset \/ n.offset # orig.offset

hasChanged(n, orig) ==
    n.onset # orig.onset \/ n.offset # orig.offset \/ n.pitch # orig.pitch

onDragEnd(S) ==
    IF S.dragState = Null THEN S
    ELSE
    LET d == S.dragState
        md == d.multiDrag
        events ==
            IF md # Null /\ d.mode = "move"
            THEN LET changed == SelectSeq([i \in 1..Len(md.notes) |-> i],
                                          LAMBDA i : hasChanged(S.heap[md.notes[i]],
                                                                md.originals[i]))
                 IN  [k \in 1..Len(changed) |->
                        Ev("notedrag", md.notes[changed[k]], S.heap[md.notes[changed[k]]],
                           md.originals[changed[k]], <<>>)]
                       \o (IF Len(changed) > 0
                           THEN <<Ev("noteschange", 0, Null, Null, <<>>)>> ELSE <<>>)
            ELSE IF hasChanged(S.heap[d.note], d.originalNote)
            THEN <<Ev(IF d.mode = "move" THEN "notedrag" ELSE "noteresize",
                      d.note, S.heap[d.note], d.originalNote, <<>>),
                   Ev("noteschange", 0, Null, Null, <<>>)>>
            ELSE <<>>
    IN  [S EXCEPT
           !.emitted = @ \o events,
           !.dragState = Null,
           !.docListeners = [mousemove |-> RemoveListener(@.mousemove, "onDragMove"),
                             mouseup |-> RemoveListener(@.mouseup, "onDragEnd")]]

onSelectionDrag(S, x, y) ==
    IF S.selectionBox = Null THEN S
    ELSE [S EXCEPT !.selectionBox.endX = x, !.selectionBox.endY = y]

\* variant: the box runs from the press point to the release point, as dragged
inBoxAsDragged(S, id, box) ==
    LET P == Params(S)
        n == Rows(P)
        noteX == NoteX(S, id)
        noteY == pitchToPx(S.heap[id].pitch, P)
        noteRight == noteX + NoteW(S, id)
        noteBottom == noteY + NoteH(P)
    IN  /\ Shown(S, id)
        /\ noteX <= box.endX /\ noteRight >= box.startX
        /\ noteY <= box.endY * n /\ noteBottom >= box.startY * n

\* the note's rectangle intersects the box
inBox(S, id, box) ==
    LET P == Params(S)
        n == Rows(P)
        minX == Min(box.startX, box.endX)
        maxX == Max(box.startX, box.endX)
        minY == Min(box.startY, box.endY)
        maxY == Max(box.startY, box.endY)
        noteX == NoteX(S, id)
        noteY == pitchToPx(S.heap[id].pitch, P)
        noteRight == noteX + NoteW(S, id)
        noteBottom == noteY + NoteH(P)
    IN  /\ Shown(S, id)
        /\ noteX <= maxX /\ noteRight >= minX
        /\ noteY <= maxY * n /\ noteBottom >= minY * n

RECURSIVE AddAll(_, _)
AddAll(sel, ids) ==
    IF ids = <<>> THEN sel ELSE AddAll(SetAdd(sel, Head(ids)), Tail(ids))

onSelectionEnd(S) ==
    IF S.selectionBox = Null THEN S
    ELSE
    LET inside == SelectSeq(S.notes, LAMBDA id : inBox(S, id, S.selectionBox))
        sel == AddAll(S.selectedNotes, inside)
    IN  [S EXCEPT
           !.selectedNotes = sel,
           !.emitted = Append(@, Ev("selectionchange", 0, Null, Null, sel)),
           !.selectionBox = Null,
           !.docListeners = [mousemove |-> RemoveListener(@.mousemove, "onSelectionDrag"),
                             mouseup |-> RemoveListener(@.mouseup, "onSelectionEnd")]]

\* 440 * 2^((midi - 69) / 12) in thousandths of a hertz, midi in 0..127
midiToHz(midi) ==
    <<
        8176, 8662, 9177, 9723, 10301, 10913, 11562, 12250,
        12978, 13750, 14568, 15434, 16352, 17324, 18354, 19445,
        20602, 21827, 23125, 24500, 25957, 27500, 29135, 30868,
        32703, 34648, 36708, 38891, 41203, 43654, 46249, 48999,
        51913, 55000, 58270, 61735, 65406, 69296, 73416, 77782,
        82407, 87307, 92499, 97999, 103826, 110000, 116541, 123471,
        130813, 138591, 146832, 155563, 164814, 174614, 184997, 195998,
        207652, 220000, 233082, 246942, 261626, 277183, 293665, 311127,
        329628, 349228, 369994, 391995, 415305, 440000, 466164, 493883,
        523251, 554365, 587330, 622254, 659255, 698456, 739989, 783991,
        830609, 880000, 932328, 987767, 1046502, 1108731, 1174659, 1244508,
        1318510, 1396913, 1479978, 1567982, 1661219, 1760000, 1864655, 1975533,
        2093005, 2217461, 2349318, 2489016, 2637020, 2793826, 2959955, 3135963,
        3322438, 3520000, 3729310, 3951066, 4186009, 4434922, 4698636, 4978032,
        5274041, 5587652, 5919911, 6271927, 6644875, 7040000, 7458620, 7902133,
        8372018, 8869844, 9397273, 9956063, 10548082, 11175303, 11839822, 12543854
    >>[midi + 1]

\* clampPitch(Math.round(69 + 12 * Math.log2(hz / 440))), hz in thousandths
\* of a hertz: the number of pitches p in 1..127 with hz at or above the
\* frequency of p - 0.5 (log2(0) is -Infinity, which clamps to 0)
hzToPitch(hz) ==
    LET halfStepsBelow == <<
        8415, 8916, 9446, 10008, 10603, 11233, 11901, 12609,
        13359, 14153, 14994, 15886, 16831, 17832, 18892, 20015,
        21205, 22466, 23802, 25218, 26717, 28306, 29989, 31772,
        33661, 35663, 37784, 40030, 42411, 44933, 47605, 50435,
        53434, 56612, 59978, 63544, 67323, 71326, 75567, 80061,
        84822, 89865, 95209, 100870, 106869, 113223, 119956, 127089,
        134646, 142652, 151135, 160122, 169643, 179731, 190418, 201741,
        213737, 226446, 239912, 254178, 269292, 285305, 302270, 320244,
        339286, 359461, 380836, 403482, 427474, 452893, 479823, 508355,
        538584, 570609, 604540, 640487, 678573, 718923, 761672, 806964,
        854948, 905786, 959647, 1016710, 1077167, 1141219, 1209079, 1280975,
        1357146, 1437846, 1523344, 1613927, 1709896, 1811572, 1919294, 2033421,
        2154334, 2282438, 2418158, 2561950, 2714291, 2875691, 3046689, 3227854,
        3419792, 3623144, 3838587, 4066841, 4308668, 4564875, 4836317, 5123899,
        5428582, 5751382, 6093377, 6455708, 6839585, 7246288, 7677174, 8133683,
        8617337, 9129750, 9672634, 10247798, 10857164, 11502765, 12186755
        >>
    IN  Cardinality({p \in 1..127 : hz >= halfStepsBelow[p]})

\* frame[b] || 0: a frame lists the bins whose magnitude is not 0
Mag(frame, b) == IF b \in DOMAIN frame THEN frame[b] ELSE 0

\* variant: the threshold is taken from the peak found near the clicked bin
thresholdOfPeak(magnitude, peakMag) == peakMag

\* binMag < threshold compares 5 * binMag with this magnitude: the threshold
\* is 20% of the magnitude at the click point
thresholdOf(magnitude, peakMag) == magnitude

\* the search of detectSpectrogramNote in the frames `data` from the frame
\* and bin of the click: null when the clicked bin is below 20% of the
\* frame's maximum, else the peak bin and the onset and offset frames
\* the loop over the bins b..last near the clicked bin
RECURSIVE peakSearch(_, _, _, _, _)
peakSearch(frame, b, last, peakBin, peakMag) ==
    IF b > last THEN [bin |-> peakBin, mag |-> peakMag]
    ELSE IF Mag(frame, b) > peakMag THEN peakSearch(frame, b + 1, last, b, Mag(frame, b))
    ELSE peakSearch(frame, b + 1, last, peakBin, peakMag)

\* the loop from frame f down to the first frame
RECURSIVE searchBackward(_, _, _, _, _)
searchBackward(data, peakBin, threshold, f, onsetFrame) ==
    IF f < 0 THEN onsetFrame
    ELSE IF 5 * Mag(data[f + 1], peakBin) < threshold THEN f + 1
    ELSE searchBackward(data, peakBin, threshold, f - 1, f)

\* the loop from frame f up to the last frame
RECURSIVE searchForward(_, _, _, _, _)
searchForward(data, peakBin, threshold, f, offsetFrame) ==
    IF f >= Len(data) THEN offsetFrame
    ELSE IF 5 * Mag(data[f + 1], peakBin) < threshold THEN f - 1
    ELSE searchForward(data, peakBin, threshold, f + 1, f)

scanFrames(data, bins, frameIndex, bin, searchRadius) ==
    LET frame == data[frameIndex + 1]
        magnitude == Mag(frame, bin)
        maxMag == Max(0, IF DOMAIN frame = {} THEN 0
                         ELSE CHOOSE v \in {frame[b] : b \in DOMAIN frame} :
                                  \A b \in DOMAIN frame : frame[b] <= v)
    IN  IF 5 * magnitude < maxMag THEN Null
        ELSE
    LET peak == peakSearch(frame, Max(0, bin - searchRadius),
                           Min(bins - 1, bin + searchRadius), bin, magnitude)
        threshold == thresholdOf(magnitude, peak.mag)
    IN  [peakBin |-> peak.bin,
         onsetFrame |-> searchBackward(data, peak.bin, threshold, frameIndex - 1, frameIndex),
         offsetFrame |-> searchForward(data, peak.bin, threshold, frameIndex + 1, frameIndex)]

\* the end of detectSpectrogramNote: the pitch of the peak bin and the times
\* of the frames found. Times are [fin |-> ticks], NaN or Infinity; the frame
\* counts of the inputs divide the duration, so the quotients are whole ticks
framesToNote(found, binHz, length) ==
    IF found = Null THEN Null
    ELSE
    LET detectedPitch == hzToPitch(found.peakBin * binHz)
        \* 0 / 0 is NaN and (offsetFrame + 1) / 0 is Infinity
        onset == IF length = 1 THEN NaN
                 ELSE [fin |-> (found.onsetFrame * Duration) \div (length - 1)]
        offset == IF length = 1 THEN [fin |-> Duration]
                  ELSE [fin |-> Min(((found.offsetFrame + 1) * Duration) \div (length - 1),
                                    Duration)]
    IN  \* a comparison with NaN is false
        IF onset # NaN /\ offset.fin - onset.fin < MIN_NOTE_DURATION
        THEN [pitch |-> detectedPitch, onset |-> onset, offset |-> [fin |-> onset.fin + 5]]
        ELSE [pitch |-> detectedPitch, onset |-> onset, offset |-> offset]

detectSpectrogramNote(S, x, y) ==
    IF S.spectrogramData.frames = 0 THEN Null
    ELSE
    LET P == Params(S)
        data == S.spectrogramData.data
        length == S.spectrogramData.frames
        binHz == (SnapSampleRate * 1000) \div S.currentFftSize
        clickFreq == midiToHz(pxToPitch(y * Rows(P), P))
        bin == RoundDiv(clickFreq, binHz)
        frameIndex == RoundDiv(x * (length - 1), Width)
    IN  IF bin < 0 \/ 2 * bin >= S.currentFftSize THEN Null
        ELSE IF frameIndex < 0 \/ frameIndex >= length THEN Null
        ELSE
    framesToNote(scanFrames(data, S.spectrogramData.bins, frameIndex, bin,
                            RoundDiv(clickFreq * 12, binHz * 100)),
                 binHz, length)

\* the pitch and the times onDoubleClick gives the new note: those of the
\* detection when snap is on and a peak is found, else those of the click
noteAtDoubleClick(S, x, y) ==
    LET P == Params(S)
        detected == IF S.snapEnabled /\ S.spectrogramData.frames > 0
                    THEN detectSpectrogramNote(S, x, y) ELSE Null
        onset == pxToTime(x, P)
    IN  IF detected # Null THEN detected
        ELSE [pitch |-> pxToPitch(y * Rows(P), P), onset |-> onset,
              offset |-> [fin |-> Min(onset.fin + 5, Duration)]]

\* the second half of onDoubleClick: the note is stored and announced
createNote(S, new) ==
    LET onset == new.onset.fin
        pitch == new.pitch
        offset == new.offset.fin
        id == FreshIds(Range(S.notes) \cup Held(S), 1)[1]
        newNote == [pitch |-> pitch, name |-> pitchToNoteName(pitch),
                    onset |-> onset, offset |-> offset, duration |-> offset - onset,
                    velocity |-> 1016, track |-> 0, channel |-> 0]
        h1 == [i \in DOMAIN S.heap \cup {id} |-> IF i = id THEN newNote ELSE S.heap[i]]
        S1 == updateUsedPitches(
                 [S EXCEPT !.heap = h1, !.notes = SortByOnset(Append(S.notes, id), h1)])
        S2 == Emit(S1, Ev("notecreate", id, newNote, Null, <<>>))
    IN  Emit(S2, Ev("noteschange", 0, Null, Null, <<>>))

onDoubleClick(S, x, y) ==
    IF findNoteAtPosition(S, x, y) # 0 THEN S
    ELSE createNote(S, noteAtDoubleClick(S, x, y))

\* ------------------------------------------------------------- public API
loadNotes(S, inputs, pitchIsHz) ==
    LET normalized == [i \in 1..Len(inputs) |-> normalizeNote(inputs[i], pitchIsHz)]
        failed == {i \in 1..Len(inputs) : Has(normalized[i], "error")}
    IN  \* notes.map throws at the first such input, before this.notes is assigned
        IF failed # {}
        THEN [S EXCEPT !.error = normalized[CHOOSE i \in failed : \A j \in failed : i <= j]]
        ELSE
    LET ids == FreshIds(Held(S), Len(inputs))
        h1 == [i \in Held(S) \cup Range(ids) |->
                 IF i \in Range(ids)
                 THEN normalized[IndexOf(ids, i) + 1]
                 ELSE S.heap[i]]
        sorted == SortByOnset(ids, h1)
        S1 == [S EXCEPT !.heap = h1, !.notes = sorted,
                        !.trackCount = Cardinality({h1[i].track : i \in Range(ids)})]
        S2 == updateUsedPitches(detectPitchRange(S1))
    IN  Emit(S2, Ev("load", 0, Null, Null, <<Len(S2.notes), S2.trackCount>>))

clearNotes(S) ==
    detectPitchRange([S EXCEPT !.notes = <<>>, !.trackCount = 0, !.usedPitches = <<>>])

setPitchRange(S, min, max) ==
    [S EXCEPT !.minPitch = clampPitch(min), !.maxPitch = clampPitch(max)]

clearSelection(S) ==
    IF Len(S.selectedNotes) > 0
    THEN Emit([S EXCEPT !.selectedNotes = <<>>], Ev("selectionchange", 0, Null, Null, <<>>))
    ELSE S

selectNotes(S, ids) ==
    LET sel == AddAll(<<>>, SelectSeq(ids, LAMBDA id : id \in Range(S.notes)))
    IN  Emit([S EXCEPT !.selectedNotes = sel], Ev("selectionchange", 0, Null, Null, sel))

\* variant: only the first selected note is removed
removeSelectedHead(S, sel) ==
    LET note == Head(sel)
        index == IndexOf(S.notes, note)
    IN  IF index # -1
        THEN Emit([S EXCEPT !.notes = RemoveAt(@, index)],
                  Ev("notedelete", note, S.heap[note], Null, <<>>))
        ELSE S

RECURSIVE removeSelected(_, _)
removeSelected(S, sel) ==
    IF sel = <<>> THEN S
    ELSE LET note == Head(sel)
             index == IndexOf(S.notes, note)
             S1 == IF index # -1
                   THEN Emit([S EXCEPT !.notes = RemoveAt(@, index)],
                             Ev("notedelete", note, S.heap[note], Null, <<>>))
                   ELSE S
         IN  removeSelected(S1, Tail(sel))

deleteSelectedNotes(S) ==
    IF Len(S.selectedNotes) = 0 THEN S
    ELSE LET S1 == removeSelected(S, S.selectedNotes)
             S2 == updateUsedPitches([S1 EXCEPT !.selectedNotes = <<>>])
             S3 == Emit(S2, Ev("selectionchange", 0, Null, Null, <<>>))
         IN  Emit(S3, Ev("noteschange", 0, Null, Null, <<>>))

setFolded(S, folded) == [S EXCEPT !.isFolded = folded]

\* variant: the quotient is rounded up
calculateSpectrogramCeil(length, fftSize, hopSize) ==
    LET numFrames == CeilDiv(length - fftSize, hopSize) + 1
    IN  IF numFrames > 0 THEN [frames |-> numFrames, bins |-> fftSize \div 2]
        ELSE NoFrames

\* calculateSpectrogram: the number of frames and the magnitudes per frame
calculateSpectrogram(length, fftSize, hopSize) ==
    LET numFrames == FloorDiv(length - fftSize, hopSize) + 1
    IN  IF numFrames > 0 THEN [frames |-> numFrames, bins |-> fftSize \div 2]
        ELSE NoFrames

calculateSpectrogramData(S, audioBuffer) ==
    IF ~S.showSpectrogram THEN S
    ELSE LET fftSize == S.currentFftSize
             overlap == Max(0, Min(95, SpectrogramOverlap))
             hopSize == Max(1, FloorDiv(fftSize * (100 - overlap), 100))
         IN  [S EXCEPT !.cachedAudioBuffer = audioBuffer,
                       !.spectrogramData =
                           calculateSpectrogram(audioBuffer.length, fftSize, hopSize)]

validSizes == {256, 512, 1024, 2048, 4096, 8192}

\* variant: the frames computed with the old size are kept
setFftSizeKeepFrames(S, size) ==
    IF size \notin validSizes THEN S ELSE [S EXCEPT !.currentFftSize = size]

\* variant: every size is accepted
setFftSizeUnchecked(S, size) ==
    LET S1 == [S EXCEPT !.currentFftSize = size]
    IN  IF S1.cachedAudioBuffer # Null
        THEN calculateSpectrogramData(S1, S1.cachedAudioBuffer)
        ELSE S1

setFftSize(S, size) ==
    IF size \notin validSizes THEN S
    ELSE LET S1 == [S EXCEPT !.currentFftSize = size]
         IN  IF S1.cachedAudioBuffer # Null
             THEN calculateSpectrogramData(S1, S1.cachedAudioBuffer)
             ELSE S1

\* the handler of the host's decode event
onDecode(S, audioBuffer) ==
    IF audioBuffer # Null THEN calculateSpectrogramData(S, audioBuffer) ELSE S

updateActiveNotes(S) ==
    [S EXCEPT !.activeNotes =
        SelectSeq(S.notes, LAMBDA id : /\ S.currentTime >= S.heap[id].onset
                                       /\ S.currentTime < S.heap[id].offset)]

\* the handler of the host's timeupdate and seeking events
onTimeUpdate(S, time) == updateActiveNotes([S EXCEPT !.currentTime = time])

\* variant: gestures in progress are left as they are
destroyContainerOnly(S) ==
    LET S1 == Emit(S, Ev("destroy", 0, Null, Null, <<>>))
    IN  [S1 EXCEPT !.containerListeners = {},
                   !.selectedNotes = <<>>, !.subscribed = FALSE,
                   !.hoveredNote = 0, !.notes = <<>>, !.usedPitches = <<>>,
                   !.spectrogramData = NoFrames, !.activeNotes = <<>>]

destroy(S) ==
    LET S1 == Emit(S, Ev("destroy", 0, Null, Null, <<>>))
        S2 == [S1 EXCEPT !.containerListeners = {}]
        S3 == IF S2.dragState # Null
              THEN [S2 EXCEPT
                      !.docListeners = [mousemove |-> RemoveListener(@.mousemove, "onDragMove"),
                                        mouseup |-> RemoveListener(@.mouseup, "onDragEnd")],
                      !.dragState = Null]
              ELSE S2
        S4 == IF S3.selectionBox # Null
              THEN [S3 EXCEPT
                      !.docListeners = [mousemove |-> RemoveListener(@.mousemove, "onSelectionDrag"),
                                        mouseup |-> RemoveListener(@.mouseup, "onSelectionEnd")],
                      !.selectionBox = Null]
              ELSE S3
    IN  [S4 EXCEPT !.selectedNotes = <<>>, !.subscribed = FALSE,
                   !.hoveredNote = 0, !.notes = <<>>, !.usedPitches = <<>>,
                   !.spectrogramData = NoFrames, !.activeNotes = <<>>]

\* -------------------------------------------------------------------- fft
\* Samples, window weights and twiddle factors are fixed-point numbers: the
\* integer v stands for v / Scale.  Angles count steps of 1/TurnSteps of a
\* turn.  Math.sin and Math.cos are tabulated to three decimals.
Scale == 1000

TurnSteps == 32

\* the product of two fixed-point numbers, rounded
Mul(a, b) == RoundDiv(a * b, Scale)

\* Math.sin(2 * Math.PI * j / TurnSteps)
Sin(j) ==
    LET firstQuarter == <<0, 195, 383, 556, 707, 831, 924, 981, 1000>>
        k == j % TurnSteps
        q == TurnSteps \div 4
    IN  IF k <= q THEN firstQuarter[k + 1]
        ELSE IF k <= 2 * q THEN firstQuarter[2 * q - k + 1]
        ELSE IF k <= 3 * q THEN -firstQuarter[k - 2 * q + 1]
        ELSE -firstQuarter[4 * q - k + 1]

\* window[i] = 0.5 * (1 - Math.cos((2 * Math.PI * i) / (length - 1))),
\* tabulated for the frame sizes in use
hannWindow(length) ==
    CASE length = 8 ->
           [i \in 0..7 |-> <<0, 188, 611, 950, 950, 611, 188, 0>>[i + 1]]
      [] length = 16 ->
           [i \in 0..15 |-> <<0, 43, 165, 345, 552, 750, 905, 989,
                               989, 905, 750, 552, 345, 165, 43, 0>>[i + 1]]

\* variant: the arrays are left in their order
RECURSIVE NoReversal(_, _, _, _)
NoReversal(a, n, i, j) == a

\* the bit reversal permutation of the arrays a.real and a.imag, from
\* index i on
RECURSIVE BitReversal(_, _, _, _)
BitReversal(a, n, i, j) ==
    LET swapped == [real |-> [a.real EXCEPT ![i] = a.real[j], ![j] = a.real[i]],
                    imag |-> [a.imag EXCEPT ![i] = a.imag[j], ![j] = a.imag[i]]]
        \* let m = n >> 1; while (m >= 1 && j >= m) { j -= m; m >>= 1 }; j += m
        RECURSIVE Carry(_, _)
        Carry(jj, m) == IF m >= 1 /\ jj >= m THEN Carry(jj - m, m \div 2) ELSE jj + m
    IN  IF i >= n THEN a
        ELSE BitReversal(IF i < j THEN swapped ELSE a, n, i + 1, Carry(j, n \div 2))

\* for (let i = m; i < n; i += mmax << 1): a butterfly on i and i + mmax
RECURSIVE ButterflyLoop(_, _, _, _, _, _)
ButterflyLoop(a, n, i, mmax, wr, wi) ==
    IF i >= n THEN a
    ELSE LET j == i + mmax
             tr == Mul(wr, a.real[j]) - Mul(wi, a.imag[j])
             ti == Mul(wr, a.imag[j]) + Mul(wi, a.real[j])
             a1 == [real |-> [a.real EXCEPT ![j] = a.real[i] - tr, ![i] = a.real[i] + tr],
                    imag |-> [a.imag EXCEPT ![j] = a.imag[i] - ti, ![i] = a.imag[i] + ti]]
         IN  ButterflyLoop(a1, n, i + 2 * mmax, mmax, wr, wi)

\* for (let m = 0; m < mmax; m++), the twiddle factor turning by theta
RECURSIVE TwiddleLoop(_, _, _, _, _, _, _, _)
TwiddleLoop(a, n, m, mmax, wr, wi, wpr, wpi) ==
    IF m >= mmax THEN a
    ELSE TwiddleLoop(ButterflyLoop(a, n, m, mmax, wr, wi), n, m + 1, mmax,
                     Mul(wr, wpr) - Mul(wi, wpi), Mul(wi, wpr) + Mul(wr, wpi),
                     wpr, wpi)

\* one pass of the Cooley-Tukey loop: theta = -Math.PI / mmax, and
\* Math.cos(theta) is the sine a quarter turn on
FftPass(a, n, mmax) ==
    LET theta == -((TurnSteps \div 2) \div mmax)
    IN  TwiddleLoop(a, n, 0, mmax, Scale, 0, Sin(theta + TurnSteps \div 4), Sin(theta))

\* ---------------------------------------------------------------- loadCSV
WhiteSpace == {" ", "\t", "\n", "\r"}

RECURSIVE trimStart(_)
trimStart(s) == IF s # <<>> /\ Head(s) \in WhiteSpace THEN trimStart(Tail(s)) ELSE s

RECURSIVE trimEnd(_)
trimEnd(s) ==
    IF s # <<>> /\ s[Len(s)] \in WhiteSpace THEN trimEnd(SubSeq(s, 1, Len(s) - 1)) ELSE s

\* String.prototype.trim
trim(s) == trimEnd(trimStart(s))

\* String.prototype.split with a one-character separator
RECURSIVE split(_, _)
split(s, separator) ==
    LET at == {i \in 1..Len(s) : s[i] = separator}
    IN  IF at = {} THEN <<s>>
        ELSE LET i == CHOOSE a \in at : \A b \in at : a <= b
             IN  <<SubSeq(s, 1, i - 1)>> \o split(SubSeq(s, i + 1, Len(s)), separator)

RECURSIVE pow10(_)
pow10(k) == IF k = 0 THEN 1 ELSE 10 * pow10(k - 1)

\* parseFloat on text without exponents: leading white space is skipped,
\* the longest prefix [+-]digits[.digits] is read and what follows it is
\* ignored; the result is the fraction [num, den], or NaN without a digit
parseFloat(text) ==
    LET s == trimStart(text)
        signed == s # <<>> /\ Head(s) \in {"+", "-"}
        sign == IF signed /\ Head(s) = "-" THEN -1 ELSE 1
        body == IF signed THEN Tail(s) ELSE s
        whole == digitPrefix(body)
        rest == SubSeq(body, Len(whole) + 1, Len(body))
        frac == IF rest # <<>> /\ Head(rest) = "." THEN digitPrefix(Tail(rest)) ELSE <<>>
    IN  IF whole = <<>> /\ frac = <<>> THEN NaN
        ELSE [num |-> sign * digitsValue(whole \o frac), den |-> pow10(Len(frac))]

\* parseFloat(cols[column]); a missing column is undefined, which gives NaN
parseColumn(cols, column) ==
    IF column + 1 \in 1..Len(cols) THEN parseFloat(cols[column + 1]) ELSE NaN

\* the model's unit of time is the tick
TicksPerSecond == 20

\* seconds as ticks; the time columns of the inputs hold multiples of 0.05
Ticks(v) == (v.num * TicksPerSecond) \div v.den

\* the pitch columns of the inputs hold whole numbers
Whole(v) == v.num \div v.den

DefaultCSVOptions ==
    [hasHeader |-> FALSE, onsetColumn |-> 0, pitchColumn |-> 1, durationColumn |-> 2,
     delimiter |-> ","]

\* an option, or its default
Option(options, f) == IF Has(options, f) THEN options[f] ELSE DefaultCSVOptions[f]

\* variant: an unparsable column is read as 0
parseLineLenient(text, options) ==
    LET line == trim(text)
        cols == split(line, Option(options, "delimiter"))
        onset == parseColumn(cols, Option(options, "onsetColumn"))
        pitch == parseColumn(cols, Option(options, "pitchColumn"))
        duration == parseColumn(cols, Option(options, "durationColumn"))
        orZero(v) == IF v = NaN THEN [num |-> 0, den |-> 1] ELSE v
    IN  IF line = <<>> THEN <<>>
        ELSE <<[pitch |-> Whole(orZero(pitch)), onset |-> Ticks(orZero(onset)),
                duration |-> Ticks(orZero(duration))]>>

\* the notes of one line: none for an empty line or an unparsable column
parseLine(text, options) ==
    LET line == trim(text)
        cols == split(line, Option(options, "delimiter"))
        onset == parseColumn(cols, Option(options, "onsetColumn"))
        pitch == parseColumn(cols, Option(options, "pitchColumn"))
        duration == parseColumn(cols, Option(options, "durationColumn"))
    IN  IF line = <<>> THEN <<>>
        ELSE IF onset = NaN \/ pitch = NaN \/ duration = NaN THEN <<>>
        ELSE <<[pitch |-> Whole(pitch), onset |-> Ticks(onset),
                duration |-> Ticks(duration)]>>

RECURSIVE parseLines(_, _)
parseLines(lines, options) ==
    IF lines = <<>> THEN <<>>
    ELSE parseLine(Head(lines), options) \o parseLines(Tail(lines), options)

\* the note inputs loadCSV collects
parseCSV(csv, options) ==
    LET lines == split(trim(csv), "\n")
        startLine == IF Option(options, "hasHeader") THEN 1 ELSE 0
    IN  parseLines(SubSeq(lines, startLine + 1, Len(lines)), options)

\* the pitchIsHz argument loadCSV passes on; undefined selects the default
detectHz(parsed, options) ==
    IF Has(options, "pitchIsHz") THEN options.pitchIsHz
    ELSE IF Len(parsed) > 0 THEN \E i \in 1..Len(parsed) : parsed[i].pitch > 127
    ELSE FALSE

loadCSV(S, csv, options) ==
    LET parsed == parseCSV(csv, options)
    IN  loadNotes(S, parsed, detectHz(parsed, options))

\* ----------------------------------------------------------------- inputs
\* Pointer positions of the gestures.  Abscissa 16 lies in the middle of a
\* note spanning ticks 2..14, in the left edge zone of one spanning 5..17
\* and in the right edge zone of one spanning 2..11; abscissa 50 lies to
\* the right of all of them.  Ordinate 106 lies in the row of pitch 64,
\* 128 and 131 in the upper and the lower half of the row of pitch 60
\* (rows as laid out for the pitch range 48..83).
PointerX == {16, 50}

PointerY == {106, 128, 131}

\* the pointer is over the container
Inside(x, y) == x >= 0 /\ x <= Width /\ y >= 0 /\ y <= Height

\* argument lists of loadNotes during gestures
GestureInputs ==
    { <<[pitch |-> 60, onset |-> 2, duration |-> 12],
        [pitch |-> 64, onset |-> 5, duration |-> 12]>>,
      <<[pitch |-> 60, onset |-> 2, duration |-> 12],
        [pitch |-> 64, onset |-> 2, duration |-> 9]>> }

\* argument lists of loadNotes before drags: also notes next to the highest
\* pitch, a note longer than the track and a note whose offset is 0
DragInputs ==
    GestureInputs \cup
    { <<[pitch |-> 123, onset |-> 2, duration |-> 12],
        [pitch |-> 126, onset |-> 5, duration |-> 12]>>,
      <<[pitch |-> 60, onset |-> 0, duration |-> 40]>>,
      <<[pitch |-> 64, onset |-> 2, offset |-> 0]>> }

\* argument lists of loadNotes in editing sessions
LoadInputs ==
    { <<[pitch |-> 60, onset |-> 2, duration |-> 12],
        [pitch |-> 64, onset |-> 16, duration |-> 12]>>,
      <<[pitch |-> 64, onset |-> 16, duration |-> 12],
        [pitch |-> 60, onset |-> 2, offset |-> 14]>>,
      <<[pitch |-> 60, onset |-> 2, duration |-> 12],
        [pitch |-> 60, onset |-> 16, duration |-> 12, velocity |-> 127000]>>,
      <<[pitch |-> 60, onset |-> 2, duration |-> 4, offset |-> 14]>>,
      <<[pitch |-> 60, onset |-> 2, offset |-> 0]>>,
      <<[pitch |-> 64, onset |-> 16]>>,
      <<>> }

\* decoded audio for snapping, with the magnitudes of its spectrogram at FFT
\* size 1024 and hop 256: one frame; four frames with a peak two bins above
\* the bin of pitch 61 that fades out; seven frames, silent but for the last
SnapBuffers ==
    { [length |-> 1024, data |-> <<(35 :> 10)>>],
      [length |-> 1792,
       data |-> <<(35 :> 10), (35 :> 10) @@ (37 :> 40), (35 :> 3) @@ (37 :> 10), (37 :> 5)>>],
      [length |-> 2560,
       data |-> << <<>>, <<>>, <<>>, <<>>, <<>>, <<>>, (35 :> 10) >>] }

\* arguments of setFftSize
FftSizes == {256, 2048, 0, 300, 16384}

\* the host's decoded audio, by its number of samples: shorter than most
\* windows, and long enough for every window
AudioBuffers == {[length |-> 1000], [length |-> 20000]}

\* playhead positions: before the notes, over the first, over both
SeekTimes == {0, 3, 10}

\* argument lists of loadNotes with pitches in Hz, above and below the
\* MIDI range
ImportInputs ==
    { <<[pitch |-> 440, onset |-> 2, duration |-> 4]>>,
      <<[pitch |-> 60, onset |-> 2, duration |-> 4],
        [pitch |-> 128, onset |-> 8, duration |-> 4]>>,
      <<[pitch |-> 220, onset |-> 8, duration |-> 4],
        [pitch |-> 880, onset |-> 2, duration |-> 4]>>,
      <<[pitch |-> 127, onset |-> 2, duration |-> 4],
        [pitch |-> 0, onset |-> 2, duration |-> 4]>>,
      <<[pitch |-> -3, onset |-> 2, duration |-> 4]>>,
      <<[pitch |-> 20000, onset |-> 2, duration |-> 4],
        [pitch |-> 64, onset |-> 2, duration |-> 4]>>,
      <<[pitch |-> 200, onset |-> 2, duration |-> 4]>> }

\* argument lists of loadNotes with pitches given as note names: valid
\* names (C4, a#3, Db-1, Cb4), and lists with a name that is not one
\* (H2, C, C#x, the empty string), first, last or alone
NamedInputs ==
    { <<[pitchName |-> <<"C", "4">>, onset |-> 2, duration |-> 4]>>,
      <<[pitchName |-> <<"a", "#", "3">>, onset |-> 8, duration |-> 4],
        [pitch |-> 64, onset |-> 2, duration |-> 4]>>,
      <<[pitchName |-> <<"D", "b", "-", "1">>, onset |-> 2, duration |-> 4, track |-> 1],
        [pitchName |-> <<"C", "b", "4">>, onset |-> 2, duration |-> 4]>>,
      <<[pitchName |-> <<"H", "2">>, onset |-> 2, duration |-> 4]>>,
      <<[pitch |-> 64, onset |-> 2, duration |-> 4],
        [pitchName |-> <<"C">>, onset |-> 8, duration |-> 4]>>,
      <<[pitchName |-> <<"C", "#", "x">>, onset |-> 2, duration |-> 4],
        [pitch |-> 60, onset |-> 8, duration |-> 4]>>,
      <<[pitchName |-> <<>>, onset |-> 2, duration |-> 4, track |-> 1]>>,
      <<>> }

\* the sizes of the frames transformed
FrameSizes == {8, 16}

\* frequencies of the sines analysed, as the phase advance per sample in
\* angle steps (f / sr * TurnSteps): from 0 up to the sampling rate, by
\* quarter bins of the smaller frame and half bins of the larger
SineSteps == 0..TurnSteps

\* rows of CSV text, each with what it is: a note, malformed or empty.
\* The fourth has a pitch column of which parseFloat reads the prefix; the
\* eighth is a header.
CsvRows ==
    << [text |-> <<"0", ".", "1", ",", "6", "0", ",", "0", ".", "5">>,
       kind |-> "note"],
      [text |-> <<"0", ".", "4", ",", "6", "4", ",", "0", ".", "2", "5">>,
       kind |-> "note"],
      [text |-> <<" ", "0", ".", "2", " ", ",", " ", "4", "4", "0", " ", ",", " ", "0", ".", "3", "\r">>,
       kind |-> "note"],
      [text |-> <<"0", ".", "5", ",", "6", "2", "x", ",", "0", ".", "1">>,
       kind |-> "note"],
      [text |-> <<"a", "b", "c", ",", "6", "0", ",", "0", ".", "5">>,
       kind |-> "malformed"],
      [text |-> <<"0", ".", "1", ",", "6", "0">>,
       kind |-> "malformed"],
      [text |-> <<"0", ".", "6", ",", ",", "0", ".", "2">>,
       kind |-> "malformed"],
      [text |-> <<"o", "n", "s", "e", "t", ",", "p", "i", "t", "c", "h", ",", "d", "u", "r", "a", "t", "i", "o", "n">>,
       kind |-> "malformed"],
      [text |-> <<" ", " ">>,
       kind |-> "empty"] >>

\* the text of a file: its rows, each but the last followed by a newline
RECURSIVE CsvText(_)
CsvText(rows) ==
    IF rows = <<>> THEN <<>>
    ELSE IF Len(rows) = 1 THEN rows[1].text
    ELSE rows[1].text \o <<"\n">> \o CsvText(Tail(rows))

\* files: none, one row, a header row and one row, and a few of notes,
\* malformed rows and empty rows
CsvFiles ==
    {<<>>} \cup {<<CsvRows[i]>> : i \in DOMAIN CsvRows}
           \cup {<<CsvRows[8], CsvRows[i]>> : i \in DOMAIN CsvRows}
           \cup { <<CsvRows[1], CsvRows[2]>>,
                  <<CsvRows[5], CsvRows[1]>>,
                  <<CsvRows[9], CsvRows[3]>>,
                  <<CsvRows[1], CsvRows[9], CsvRows[2]>>,
                  <<CsvRows[8], CsvRows[4], CsvRows[3]>>,
                  <<CsvRows[2], CsvRows[6], CsvRows[7]>> }

\* options of loadCSV: a header or none; pitchIsHz absent, true or false;
\* the columns and the delimiter are the default ones
CsvOptionSets ==
    {[hasHeader |-> h] : h \in BOOLEAN}
        \cup {[hasHeader |-> h, pitchIsHz |-> z] : h, z \in BOOLEAN}

\* pointer positions of clicks in editing sessions: 60 is the right border
EditX == {16, 60}

EditY == {106, 128, 131}

\* argument lists of selectNotes: note objects obtained earlier
SelectInputs ==
    {<<>>} \cup {<<a>> : a \in DOMAIN heap}
           \cup {<<a, b>> : a, b \in DOMAIN heap}

\* ---------------------------------------------------------------- actions
CommitWith(S0, op, args) ==
    LET S == Collect(S0)
    IN  /\ heap' = S.heap
        /\ notes' = S.notes
        /\ minPitch' = S.minPitch
        /\ maxPitch' = S.maxPitch
        /\ trackCount' = S.trackCount
        /\ isFolded' = S.isFolded
        /\ usedPitches' = S.usedPitches
        /\ hoveredNote' = S.hoveredNote
        /\ selectedNotes' = S.selectedNotes
        /\ dragState' = S.dragState
        /\ selectionBox' = S.selectionBox
        /\ docListeners' = S.docListeners
        /\ containerListeners' = S.containerListeners
        /\ subscribed' = S.subscribed
        /\ activeNotes' = S.activeNotes
        /\ currentTime' = S.currentTime
        /\ currentFftSize' = S.currentFftSize
        /\ cachedAudioBuffer' = S.cachedAudioBuffer
        /\ spectrogramData' = S.spectrogramData
        /\ showSpectrogram' = S.showSpectrogram
        /\ previewEnabled' = S.previewEnabled
        /\ snapEnabled' = S.snapEnabled
        /\ steps' = steps + 1
        /\ lastOp' = op
        /\ lastArgs' = args
        /\ emitted' = S.emitted
        /\ lastHover' = LET hovers == SelectSeq(S.emitted, LAMBDA e : e.type = "notehover")
                        IN  IF hovers = <<>> THEN lastHover ELSE hovers[Len(hovers)].note
        /\ UNCHANGED fftFrame

Commit(S0, op) == CommitWith(S0, op, Null)

\* the handler of a document listener
RunListener(S, h, x, y) ==
    CASE h = "onDragMove" -> onDragMove(S, x, y)
      [] h = "onSelectionDrag" -> onSelectionDrag(S, x, y)
      [] h = "onDragEnd" -> onDragEnd(S)
      [] h = "onSelectionEnd" -> onSelectionEnd(S)

\* the document dispatches an event to the listeners attached when the
\* dispatch starts, in attach order, skipping one removed meanwhile
RECURSIVE Dispatch(_, _, _, _, _)
Dispatch(S, type, hs, x, y) ==
    IF hs = <<>> THEN S
    ELSE LET h == Head(hs)
             S1 == IF h \in Range(S.docListeners[type]) THEN RunListener(S, h, x, y) ELSE S
         IN  Dispatch(S1, type, Tail(hs), x, y)

\* mousedown on the container
MouseDownAt(x, y, shiftKey) ==
    /\ "mousedown" \in containerListeners
    /\ Inside(x, y)
    /\ Commit(onMouseDown(Cur, x, y, shiftKey), "mousedown")

MouseDown == \E x \in PointerX, y \in PointerY, shiftKey \in BOOLEAN : MouseDownAt(x, y, shiftKey)

\* mousemove and mouseup reach the gestures through the document's listeners
MouseMove ==
    /\ docListeners.mousemove # <<>>
    /\ \E x \in PointerX, y \in PointerY :
          Commit(Dispatch(Cur, "mousemove", docListeners.mousemove, x, y), "mousemove")

MouseUp ==
    /\ docListeners.mouseup # <<>>
    /\ Commit(Dispatch(Cur, "mouseup", docListeners.mouseup, 0, 0), "mouseup")

\* mousemove on the container (hover)
ContainerMouseMove ==
    /\ "mousemove" \in containerListeners
    /\ \E x \in PointerX, y \in PointerY :
          Inside(x, y) /\ Commit(onMouseMove(Cur, x, y), "hover")

MouseLeave ==
    "mouseleave" \in containerListeners /\ Commit(onMouseLeave(Cur), "mouseleave")

\* shift+mousedown on a note
ShiftClick ==
    \E x \in EditX, y \in EditY :
        findNoteAtPosition(Cur, x, y) # 0 /\ MouseDownAt(x, y, TRUE)

DoubleClick ==
    \E x \in EditX, y \in EditY :
        /\ "dblclick" \in containerListeners
        /\ Inside(x, y)
        /\ findNoteAtPosition(Cur, x, y) = 0
              => Cardinality(Range(notes) \cup Held(Cur)) < MaxObjects
        /\ Commit(onDoubleClick(Cur, x, y), "dblclick")

LoadFrom(inputSet) ==
    \E inputs \in inputSet :
        /\ Cardinality(Held(Cur)) + Len(inputs) <= MaxObjects
        /\ Commit(loadNotes(Cur, inputs, FALSE), "loadNotes")

LoadNotes == LoadFrom(LoadInputs)

\* loadNotes(notes, pitchIsHz); the flag defaults to false
LoadImport ==
    \E inputs \in ImportInputs, pitchIsHz \in BOOLEAN :
        /\ Cardinality(Held(Cur)) + Len(inputs) <= MaxObjects
        /\ CommitWith(loadNotes(Cur, inputs, pitchIsHz), "loadNotes",
                      [notes |-> inputs, pitchIsHz |-> pitchIsHz])

GestureLoad == LoadFrom(GestureInputs)

\* loadNotes with note names; an error it throws goes to the caller
LoadNamed ==
    \E inputs \in NamedInputs, pitchIsHz \in BOOLEAN :
        /\ Cardinality(Held(Cur)) + Len(inputs) <= MaxObjects
        /\ CommitWith(loadNotes(Cur, inputs, pitchIsHz), "loadNotes",
                      [notes |-> inputs, pitchIsHz |-> pitchIsHz])

ClearNotes == Commit(clearNotes(Cur), "clearNotes")

SetPitchRange ==
    \E min \in {-5, 50, 100}, max \in {-5, 50, 100} :
        CommitWith(setPitchRange(Cur, min, max), "setPitchRange", [min |-> min, max |-> max])

ClearSelection == Commit(clearSelection(Cur), "clearSelection")

SelectNotes == \E ids \in SelectInputs : Commit(selectNotes(Cur, ids), "selectNotes")

\* selectNotes with the notes getNotes returns
SelectAll == Commit(selectNotes(Cur, notes), "selectNotes")

DeleteSelectedNotes == Commit(deleteSelectedNotes(Cur), "deleteSelectedNotes")

SetFolded == \E folded \in BOOLEAN : Commit(setFolded(Cur, folded), "setFolded")

SetFftSize == \E size \in FftSizes : Commit(setFftSize(Cur, size), "setFftSize")

\* the host decoded its audio; the plugin listens when the spectrogram is on
Decode ==
    /\ subscribed /\ showSpectrogram
    /\ \E audioBuffer \in AudioBuffers : Commit(onDecode(Cur, audioBuffer), "decode")

\* the decode event, with the magnitudes that calculateSpectrogram computes
\* from the audio
DecodeSnap ==
    /\ subscribed /\ showSpectrogram
    /\ \E audioBuffer \in SnapBuffers :
          LET S1 == onDecode(Cur, audioBuffer)
          IN  /\ S1.spectrogramData.frames = Len(audioBuffer.data)
              /\ Commit([S1 EXCEPT !.spectrogramData =
                            [frames |-> @.frames, bins |-> @.bins, data |-> audioBuffer.data]],
                        "decode")

\* the Snap checkbox is ticked or cleared
ToggleSnap == showSpectrogram /\ Commit([Cur EXCEPT !.snapEnabled = ~@], "toggleSnap")

\* a double-click with the Snap checkbox in place; a click that gives the
\* new note an onset that is not a number is followed no further
SnapDoubleClick ==
    \E x \in EditX, y \in EditY :
        /\ "dblclick" \in containerListeners
        /\ findNoteAtPosition(Cur, x, y) = 0
              => /\ Cardinality(Range(notes) \cup Held(Cur)) < MaxObjects
                 /\ noteAtDoubleClick(Cur, x, y).onset # NaN
        /\ CommitWith(onDoubleClick(Cur, x, y), "dblclick", [x |-> x, y |-> y])

\* the host's playhead moved
Seek ==
    /\ subscribed
    /\ \E time \in SeekTimes : Commit(onTimeUpdate(Cur, time), "seek")

Destroy == Commit(destroy(Cur), "destroy")

LoadCSV ==
    \E rows \in CsvFiles, options \in CsvOptionSets :
        /\ Cardinality(Held(Cur)) + Len(parseCSV(CsvText(rows), options)) <= MaxObjects
        /\ CommitWith(loadCSV(Cur, CsvText(rows), options), "loadCSV",
                      [rows |-> rows, options |-> options])

\* a press without shift in the row of pitch 60: on a note or on empty space
Press == \E x \in PointerX : MouseDownAt(x, 128, FALSE)

\* the plugin as constructed and initialised
\* a press without shift on a note
PressNote ==
    \E x \in {4, 16, 50}, y \in PointerY :
        findNoteAtPosition(Cur, x, y) # 0 /\ MouseDownAt(x, y, FALSE)

\* mousemove on the document while a drag is under way: the pointer is
\* anywhere, outside the container too
DragMove ==
    /\ docListeners.mousemove # <<>>
    /\ \E x \in {-20, 16, 80}, y \in {-50, 106, 300} :
          CommitWith(Dispatch(Cur, "mousemove", docListeners.mousemove, x, y), "mousemove",
                     [x |-> x, y |-> y])

\* the synchronous part of togglePreview
TogglePreview == Commit([Cur EXCEPT !.previewEnabled = ~@], "togglePreview")

InitPlugin(folded, show) ==
    /\ heap = <<>>
    /\ notes = <<>>
    /\ minPitch = DefaultMinPitch
    /\ maxPitch = DefaultMaxPitch
    /\ trackCount = 0
    /\ isFolded = folded
    /\ usedPitches = <<>>
    /\ hoveredNote = 0
    /\ selectedNotes = <<>>
    /\ dragState = Null
    /\ selectionBox = Null
    /\ docListeners = [mousemove |-> <<>>, mouseup |-> <<>>]
    /\ containerListeners = {"mousemove", "mouseleave", "mousedown", "dblclick"}
    /\ subscribed = TRUE
    /\ activeNotes = <<>>
    /\ currentTime = 0
    /\ currentFftSize = DefaultFftSize
    /\ cachedAudioBuffer = Null
    /\ spectrogramData = NoFrames
    /\ showSpectrogram = show
    /\ previewEnabled = FALSE
    /\ snapEnabled = FALSE
    /\ steps = 0
    /\ lastOp = "init"
    /\ lastArgs = Null
    /\ emitted = <<>>
    /\ lastHover = -1

InitWith(folded, show) == InitPlugin(folded, show) /\ fftFrame = Null

\* the spectrogram is off unless the options turn it on
Init == \E folded \in BOOLEAN : InitWith(folded, FALSE)

InitHost == \E show \in BOOLEAN : InitWith(FALSE, show)

\* pointer gestures on a loaded store
Next ==
    \/ steps < MaxSteps /\ GestureLoad
    \/ steps < MaxSteps /\ MouseDown
    \/ steps < MaxSteps /\ MouseMove
    \/ steps < MaxSteps /\ MouseUp

Spec == Init /\ [][Next]_vars

\* editing sessions: loading, creating, selecting and deleting notes
NextEdit ==
    \/ steps < MaxEdits /\ LoadNotes
    \/ steps < MaxEdits /\ ClearNotes
    \/ steps < MaxEdits /\ SetFolded
    \/ steps < MaxEdits /\ DoubleClick
    \/ steps < MaxEdits /\ ShiftClick
    \/ steps < MaxEdits /\ SelectNotes
    \/ steps < MaxEdits /\ ClearSelection
    \/ steps < MaxEdits /\ DeleteSelectedNotes

SpecEdit == Init /\ [][NextEdit]_vars

\* moves of single notes and of selected notes, and note creation
NextMulti ==
    \/ steps < MaxEdits /\ GestureLoad
    \/ steps < MaxEdits /\ SelectAll
    \/ steps < MaxEdits /\ DoubleClick
    \/ steps < MaxEdits /\ Press
    \/ steps < MaxEdits /\ MouseMove
    \/ steps < MaxEdits /\ MouseUp

SpecMulti == Init /\ [][NextMulti]_vars

\* the pointer over the container of a loaded store, no button pressed
NextHover ==
    \/ steps < MaxEdits /\ GestureLoad
    \/ steps < MaxEdits /\ ContainerMouseMove
    \/ steps < MaxEdits /\ MouseLeave

SpecHover == Init /\ [][NextHover]_vars

\* imports: note lists with either pitch unit, and CSV text
NextImport ==
    \/ steps < MaxImports /\ LoadImport
    \/ steps < MaxImports /\ LoadCSV
    \/ steps < MaxImports /\ ClearNotes
    \/ steps < MaxImports /\ SetPitchRange

InitImport == InitWith(FALSE, FALSE)

SpecImport == InitImport /\ [][NextImport]_vars

\* imports of notes whose pitches are note names
NextNamed ==
    \/ steps < MaxEdits /\ LoadNamed
    \/ steps < MaxEdits /\ SetFolded
    \/ steps < MaxEdits /\ ClearNotes

SpecNamed == InitImport /\ [][NextNamed]_vars

\* calculateSpectrogram on one frame, by the steps of its loop body
WindowFrame ==
    /\ fftFrame # Null /\ fftFrame.pc = "window"
    /\ LET n == fftFrame.fftSize
           window == hannWindow(n)
       IN  fftFrame' = [fftFrame EXCEPT
                          !.pc = "permute",
                          !.real = [i \in 0..(n - 1) |-> Mul(fftFrame.audioData[i], window[i])],
                          !.imag = [i \in 0..(n - 1) |-> 0]]
    /\ UNCHANGED pluginVars

PermuteFrame ==
    /\ fftFrame # Null /\ fftFrame.pc = "permute"
    /\ LET n == fftFrame.fftSize
           a == BitReversal([real |-> fftFrame.real, imag |-> fftFrame.imag], n, 0, 0)
       IN  fftFrame' = [fftFrame EXCEPT !.pc = IF n > 1 THEN "pass" ELSE "magnitudes",
                                        !.mmax = 1, !.real = a.real, !.imag = a.imag]
    /\ UNCHANGED pluginVars

PassFrame ==
    /\ fftFrame # Null /\ fftFrame.pc = "pass"
    /\ LET n == fftFrame.fftSize
           a == FftPass([real |-> fftFrame.real, imag |-> fftFrame.imag], n, fftFrame.mmax)
       IN  fftFrame' = [fftFrame EXCEPT
                          !.pc = IF 2 * fftFrame.mmax < n THEN "pass" ELSE "magnitudes",
                          !.mmax = 2 * @, !.real = a.real, !.imag = a.imag]
    /\ UNCHANGED pluginVars

MagnitudesOfFrame ==
    /\ fftFrame # Null /\ fftFrame.pc = "magnitudes"
    \* the first half of the bins, each magnitude by its square
    /\ fftFrame' = [fftFrame EXCEPT
                       !.pc = "done",
                       !.magnitudes =
                           [i \in 0..(fftFrame.fftSize \div 2 - 1) |->
                               fftFrame.real[i] * fftFrame.real[i]
                                 + fftFrame.imag[i] * fftFrame.imag[i]]]
    /\ UNCHANGED pluginVars

\* a frame of a sine enters the loop body
InitFft ==
    /\ InitPlugin(FALSE, TRUE)
    /\ \E stepsPerSample \in SineSteps, fftSize \in FrameSizes :
          fftFrame = [pc |-> "window", stepsPerSample |-> stepsPerSample,
                      fftSize |-> fftSize,
                      \* a sine of amplitude 1 and phase 0: sin(2 pi f n / sr)
                      audioData |-> [n \in 0..(fftSize - 1) |-> Sin(stepsPerSample * n)],
                      real |-> <<>>, imag |-> <<>>, mmax |-> 0, magnitudes |-> <<>>]

\* calculateSpectrogram is called on a buffer of `length` samples
InitFrames ==
    /\ InitPlugin(FALSE, TRUE)
    /\ \E length \in 0..MaxSamples, fftSize \in {2, 4} \cup FrameSizes, hopSize \in 1..MaxHop :
          fftFrame = [pc |-> "frames", length |-> length, fftSize |-> fftSize,
                      hopSize |-> hopSize, frame |-> 0, spectrogram |-> <<>>]

\* one turn of the loop over the frames, or its end: a frame is kept as the
\* index of its first sample, the last index it reads and the length of its
\* magnitudes
FrameLoop ==
    /\ fftFrame # Null
    /\ fftFrame.pc = "frames"
    /\ LET f == fftFrame
           numFrames == calculateSpectrogram(f.length, f.fftSize, f.hopSize).frames
           start == f.frame * f.hopSize
       IN  fftFrame' =
             IF f.frame < numFrames
             THEN [f EXCEPT !.frame = @ + 1,
                            !.spectrogram =
                                Append(@, [start |-> start,
                                           last |-> start + f.fftSize - 1,
                                           magnitudes |-> f.fftSize \div 2])]
             ELSE [f EXCEPT !.pc = "returned"]
    /\ UNCHANGED pluginVars

SpecFrames == InitFrames /\ [][FrameLoop]_vars

\* double-clicks that snap to the spectrogram
NextSnap ==
    \/ steps < MaxEdits /\ DecodeSnap
    \/ steps < MaxEdits /\ ToggleSnap
    \/ steps < MaxEdits /\ SnapDoubleClick
    \/ steps < MaxEdits /\ ClearNotes

SpecSnap == InitWith(FALSE, TRUE) /\ [][NextSnap]_vars

NextFft ==
    \/ WindowFrame
    \/ PermuteFrame
    \/ PassFrame
    \/ MagnitudesOfFrame

SpecFft == InitFft /\ [][NextFft]_vars

\* drags of single notes and of selected notes, with and without preview
NextDrag ==
    \/ steps < MaxEdits /\ LoadFrom(DragInputs)
    \/ steps < MaxEdits /\ SelectAll
    \/ steps < MaxEdits /\ TogglePreview
    \/ steps < MaxEdits /\ PressNote
    \/ steps < MaxEdits /\ DragMove
    \/ steps < MaxEdits /\ MouseUp

SpecDrag == Init /\ [][NextDrag]_vars

\* the host's events and the plugin's teardown, with gestures under way
NextHost ==
    \/ steps < MaxEdits /\ GestureLoad
    \/ steps < MaxEdits /\ Press
    \/ steps < MaxEdits /\ MouseMove
    \/ steps < MaxEdits /\ MouseUp
    \/ steps < MaxEdits /\ Seek
    \/ steps < MaxEdits /\ Decode
    \/ steps < MaxEdits /\ SetFftSize
    \/ steps < MaxEdits /\ Destroy

SpecHost == InitHost /\ [][NextHost]_vars

\* ----------------------------------------------------------------- claims
\* the events of the given types among evs, in order
OfType(evs, types) == SelectSeq(evs, LAMBDA e : e.type \in types)

\* the ascending sequence of the distinct pitches in the store
StorePitches == SortedSeq({heap[id].pitch : id \in Range(notes)})

\* C1: whatever the sequence of pointer-down, pointer-move and pointer-up
\* events, a drag and a box selection are never active together: dragState
\* and selectionBox are never both non-null.
C1_GesturesExclusive == dragState = Null \/ selectionBox = Null

\* C2: every note in the store has offset = onset + duration, whatever the
\* input it was loaded from and whatever edit it went through.
C2_OffsetIsOnsetPlusDuration ==
    \A id \in Range(notes) : heap[id].offset = heap[id].onset + heap[id].duration

\* C3: whenever no drag is in progress, usedPitches is the ascending
\* sequence of the distinct pitches of the notes in the store; in
\* particular it is up to date once a drag that changed a pitch has ended.
C3_UsedPitchesCurrent == dragState = Null => usedPitches = StorePitches

\* C5: pressing on a note at a position that classifies as move, moving the
\* pointer back to the press position and releasing leaves the note's onset,
\* offset and pitch as they were and emits neither notedrag nor noteschange.
C5_ZeroDisplacementMove ==
    \A x \in PointerX, y \in PointerY :
        LET note == findNoteAtPosition(Cur, x, y)
        IN  (dragState = Null /\ selectionBox = Null /\ note # 0
               /\ getDragMode(Cur, x, note) = "move")
            => LET S1 == onMouseDown(Cur, x, y, FALSE)
                   S2 == Dispatch(S1, "mousemove", S1.docListeners.mousemove, x, y)
                   S3 == Dispatch(S2, "mouseup", S2.docListeners.mouseup, x, y)
               IN  /\ S3.heap[note].onset = heap[note].onset
                   /\ S3.heap[note].offset = heap[note].offset
                   /\ S3.heap[note].pitch = heap[note].pitch
                   /\ OfType(S3.emitted, {"notedrag", "noteschange"}) = <<>>

\* C6: in folded and in unfolded mode, every displayed pitch is mapped back
\* to itself: pxToPitch(pitchToPx(p)) = p for every p in displayPitches.
C6_PitchRoundTrip ==
    (isFolded => usedPitches # <<>>)
    => \A p \in Range(getDisplayPitches(Params(Cur))) :
          pxToPitch(pitchToPx(p, Params(Cur)), Params(Cur)) = p

\* C4: releasing a single-note drag emits, when the note's onset, offset or
\* pitch differs from the snapshot taken at pointer-down, exactly one
\* notedrag (move) or noteresize (resize) carrying the live note and that
\* snapshot, then exactly one noteschange, and none of these events when
\* the three fields are as in the snapshot; the snapshot is the note as it
\* was at pointer-down and no later step of the drag modifies it.
C4_SingleDragRelease ==
    [][ /\ (lastOp' = "mousedown" /\ dragState' # Null /\ dragState' # dragState)
              => dragState'.originalNote = heap[dragState'.note]
        /\ (lastOp' # "mousedown" /\ dragState # Null /\ dragState' # Null)
              => /\ dragState'.note = dragState.note
                 /\ dragState'.originalNote = dragState.originalNote
        /\ (lastOp' = "mouseup" /\ dragState # Null /\ dragState.multiDrag = Null)
              => LET d == dragState
                     live == heap[d.note]
                     differs == <<live.onset, live.offset, live.pitch>>
                                  # <<d.originalNote.onset, d.originalNote.offset,
                                      d.originalNote.pitch>>
                 IN  OfType(emitted', {"notedrag", "noteresize", "noteschange"})
                       = IF differs
                         THEN <<Ev(IF d.mode = "move" THEN "notedrag" ELSE "noteresize",
                                   d.note, live, d.originalNote, <<>>),
                                Ev("noteschange", 0, Null, Null, <<>>)>>
                         ELSE <<>>
      ]_vars

\* a single-note move drag that changed the pitch has just been released
C4_Witness ==
    /\ lastOp = "mouseup"
    /\ selectedNotes = <<>>
    /\ Len(emitted) = 2
    /\ emitted[1].type = "notedrag"
    /\ emitted[1].val.pitch # emitted[1].orig.pitch
    /\ emitted[1].val.onset = emitted[1].orig.onset
    /\ emitted[2].type = "noteschange"

\* the note is drawn: its pitch is in the pitch range and, when folded, among
\* the used pitches
Visible(id) ==
    /\ minPitch <= heap[id].pitch /\ heap[id].pitch <= maxPitch
    /\ (isFolded => \E i \in 1..Len(usedPitches) : usedPitches[i] = heap[id].pitch)

\* the rectangles of the visible notes of the store, ordinates as numerators
\* over the number of display rows
NoteRects ==
    LET P == Params(Cur)
        h == NoteH(P)
    IN  [id \in {i \in Range(notes) : Visible(i)} |->
            LET left == NoteX(Cur, id)
                top == pitchToPx(heap[id].pitch, P)
            IN  [left |-> left, right |-> left + NoteW(Cur, id),
                 top |-> top, bottom |-> top + h]]

\* the rectangle r and the rectangle with corners (ax, ay) and (bx, by) share
\* a point: on neither axis do both corners lie on one side of r (n is the
\* number of display rows)
Overlaps(r, n, ax, ay, bx, by) ==
    /\ ~(ax < r.left /\ bx < r.left) /\ ~(ax > r.right /\ bx > r.right)
    /\ ~(ay * n < r.top /\ by * n < r.top) /\ ~(ay * n > r.bottom /\ by * n > r.bottom)

\* no rectangle of R contains the point
EmptyAt(R, n, x, y) == \A id \in DOMAIN R : ~Overlaps(R[id], n, x, y, x, y)

\* C7: a pointer-down on empty space keeps the selection when shift is held
\* and empties it otherwise; releasing the box then leaves selected the
\* notes selected so far together with exactly the visible notes whose
\* rectangle overlaps the box spanned by the press and the release point,
\* whichever way the box was dragged, and emits one selectionchange that
\* carries the final selection.
C7_BoxSelection ==
    LET R == NoteRects
        n == Rows(Params(Cur))
    IN  /\ \A x \in PointerX, y \in PointerY, shiftKey \in BOOLEAN :
              EmptyAt(R, n, x, y)
              => LET S1 == onMouseDown(Cur, x, y, shiftKey)
                 IN  /\ S1.selectedNotes = IF shiftKey THEN selectedNotes ELSE <<>>
                     /\ S1.selectionBox # Null
                     /\ <<S1.selectionBox.startX, S1.selectionBox.startY>> = <<x, y>>
                     /\ <<S1.selectionBox.endX, S1.selectionBox.endY>> = <<x, y>>
        /\ selectionBox # Null
              => LET b == selectionBox
                     S1 == Dispatch(Cur, "mouseup", docListeners.mouseup, 0, 0)
                     changes == OfType(S1.emitted, {"selectionchange"})
                 IN  /\ Range(S1.selectedNotes)
                           = Range(selectedNotes)
                               \cup {id \in DOMAIN R :
                                       Overlaps(R[id], n, b.startX, b.startY, b.endX, b.endY)}
                     /\ Len(changes) = 1
                     /\ changes[1].list = S1.selectedNotes
                     /\ S1.selectionBox = Null

\* a box over two notes has been released, the selection held two notes
\* and the selectionchange carried them
C7_Witness ==
    /\ lastOp = "mouseup"
    /\ Len(selectedNotes) = 2
    /\ Len(emitted) = 1
    /\ emitted[1].type = "selectionchange"
    /\ emitted[1].list = selectedNotes

\* C8: deleteSelectedNotes with a non-empty selection removes every selected
\* note from the store and no other note, leaves the selection empty,
\* recomputes usedPitches and emits exactly one selectionchange with an
\* empty list and exactly one noteschange.
C8_DeleteSelected ==
    selectedNotes # <<>>
    => LET S1 == deleteSelectedNotes(Cur)
       IN  /\ S1.notes = SelectSeq(notes, LAMBDA id : id \notin Range(selectedNotes))
           /\ \A id \in Range(S1.notes) : S1.heap[id] = heap[id]
           /\ S1.selectedNotes = <<>>
           /\ S1.usedPitches = SortedSeq({heap[id].pitch : id \in Range(S1.notes)})
           /\ OfType(S1.emitted, {"selectionchange"})
                 = <<Ev("selectionchange", 0, Null, Null, <<>>)>>
           /\ Len(OfType(S1.emitted, {"noteschange"})) = 1

\* two selected notes have just been deleted and another note remains
C8_Witness ==
    /\ lastOp = "deleteSelectedNotes"
    /\ Len(OfType(emitted, {"notedelete"})) = 2
    /\ emitted[Len(emitted)].type = "noteschange"
    /\ notes # <<>>
    /\ selectedNotes = <<>>

\* the model has an object left for a new note
Room == Cardinality(Range(notes) \cup Held(Cur)) < MaxObjects

\* pitch is clamp(round(P)) for the pointer pitch P at ordinate y: unfolded,
\* P = minPitch + (height - y) / rowHeight - 1; folded, P is the pitch of
\* the display row the ordinate falls into, counted from the bottom
IsPointerPitch(pitch, y) ==
    LET P == Params(Cur)
        pitches == getDisplayPitches(P)
        n == Len(pitches)
        up == (Height - y) * n          \* (height - y) / rowHeight, times Height
    IN  IF isFolded
        THEN \E k \in 0..(n - 1) :
                /\ pitch = pitches[k + 1]
                /\ \/ k * Height <= up /\ up < (k + 1) * Height
                   \/ k = 0 /\ up < 0
                   \/ k = n - 1 /\ up >= n * Height
        ELSE \E r \in (minPitch - 2)..(maxPitch + 1) :
                /\ (2 * r - 1) * Height <= 2 * ((minPitch - 1) * Height + up)
                /\ 2 * ((minPitch - 1) * Height + up) < (2 * r + 1) * Height
                /\ pitch = IF r < 0 THEN 0 ELSE IF r > 127 THEN 127 ELSE r

\* C9: a double-click on empty space, snap off, at pointer time T and pointer
\* pitch P adds exactly one note with onset T, offset min(T + 0.25 s, total
\* duration), pitch clamp(round(P)), velocity 0.8, track 0 and channel 0,
\* and emits notecreate with that note followed by noteschange.
C9_DoubleClickCreates ==
    LET R == NoteRects
        rows == Rows(Params(Cur))
    IN
        \A x \in EditX, y \in EditY :
            (Room /\ EmptyAt(R, rows, x, y))
            => LET S1 == onDoubleClick(Cur, x, y)
                   added == Range(S1.notes) \ Range(notes)
               IN  /\ Len(S1.notes) = Len(notes) + 1
                   /\ Cardinality(added) = 1
                   /\ \A id \in Range(notes) : id \in Range(S1.notes) /\ S1.heap[id] = heap[id]
                   /\ \A id \in added :
                         LET n == S1.heap[id]
                         IN  /\ n.onset * Width = x * Duration
                             /\ n.offset = (IF n.onset + 5 <= Duration THEN n.onset + 5
                                            ELSE Duration)
                             /\ IsPointerPitch(n.pitch, y)
                             /\ n.velocity * 10 = 8 * 1270
                             /\ n.track = 0 /\ n.channel = 0
                             /\ S1.emitted = <<Ev("notecreate", id, n, Null, <<>>),
                                               Ev("noteschange", 0, Null, Null, <<>>)>>

\* a double-click has just created a note next to the loaded ones
C9_Witness ==
    /\ lastOp = "dblclick"
    /\ Len(emitted) = 2
    /\ emitted[1].type = "notecreate"
    /\ emitted[1].note \in Range(notes)
    /\ Len(notes) >= 2

\* C10: a double-click at a position that hits an existing note leaves the
\* note list, usedPitches and the selection unchanged and emits neither
\* notecreate nor noteschange.
C10_DoubleClickOnNote ==
    LET R == NoteRects
        rows == Rows(Params(Cur))
    IN
        \A x \in EditX, y \in EditY :
            (Room /\ ~EmptyAt(R, rows, x, y))
            => LET S1 == onDoubleClick(Cur, x, y)
               IN  /\ S1.notes = notes
                   /\ \A id \in Range(notes) : S1.heap[id] = heap[id]
                   /\ S1.usedPitches = usedPitches
                   /\ S1.selectedNotes = selectedNotes
                   /\ OfType(S1.emitted, {"notecreate", "noteschange"}) = <<>>

\* a double-click on a note of a non-empty store has just been handled
C10_Witness ==
    /\ lastOp = "dblclick"
    /\ emitted = <<>>
    /\ notes # <<>>
    /\ \E x \in EditX, y \in EditY : ~EmptyAt(NoteRects, Rows(Params(Cur)), x, y)

\* the number of positions of seq that hold e
Count(seq, e) == Cardinality({i \in 1..Len(seq) : seq[i] = e})

\* the note objects of a store, in list order
Stored(S) == [i \in 1..Len(S.notes) |-> S.heap[S.notes[i]]]

\* the list is in ascending onset order
Ascending(recs) == \A i \in 1..(Len(recs) - 1) : recs[i].onset <= recs[i + 1].onset

\* the note inputs of the call handled last, a loadNotes or a loadCSV
LastInputs ==
    IF lastOp = "loadCSV" THEN parseCSV(CsvText(lastArgs.rows), lastArgs.options)
    ELSE lastArgs.notes

\* the pitchIsHz its notes were normalized with
LastPitchIsHz ==
    IF lastOp = "loadCSV" THEN detectHz(LastInputs, lastArgs.options)
    ELSE lastArgs.pitchIsHz

\* C11: after loadNotes, and after loadCSV, the store holds exactly the
\* normalized input notes, each as many times as it was passed, and so none
\* of the notes stored before; the list is in ascending onset order and
\* usedPitches is the ascending sequence of the distinct pitches stored.
C11_LoadReplacesStore ==
    (lastOp \in {"loadNotes", "loadCSV"} /\ lastArgs # Null) =>
        LET after == Stored(Cur)
            normalized == [i \in 1..Len(LastInputs) |->
                              normalizeNote(LastInputs[i], LastPitchIsHz)]
        IN  /\ Len(after) = Len(normalized)
            /\ \A n \in Range(after) \cup Range(normalized) :
                   Count(after, n) = Count(normalized, n)
            /\ Cardinality(Range(notes)) = Len(notes)
            /\ Ascending(after)
            /\ usedPitches = SortedSeq({after[i].pitch : i \in 1..Len(after)})

\* a second or later call has loaded two notes that were passed in
\* descending onset order, and they are stored in ascending order
C11_Witness ==
    /\ lastOp = "loadNotes"
    /\ steps >= 2
    /\ Len(lastArgs.notes) = 2
    /\ lastArgs.notes[1].onset > lastArgs.notes[2].onset
    /\ Len(notes) = 2
    /\ heap[notes[1]].onset < heap[notes[2]].onset

\* C12: in every reachable state the note list is in ascending onset order,
\* also after a move or a resize-left drag has changed a note's onset.
C12_NotesSortedByOnset == Ascending(Stored(Cur))

\* sizes outside the accepted set: the other arguments of setFftSize in use
\* and the neighbours of the accepted sizes
RejectedSizes ==
    (FftSizes \cup {n - 1 : n \in {256, 512, 1024, 2048, 4096, 8192}}
              \cup {n + 1 : n \in {256, 512, 1024, 2048, 4096, 8192}})
        \ {256, 512, 1024, 2048, 4096, 8192}

\* C13: setFftSize with a size outside {256, 512, 1024, 2048, 4096, 8192}
\* leaves currentFftSize and the spectrogram frame matrix as they were, and
\* every other field with them.
C13_InvalidFftSizeRejected ==
    \A size \in RejectedSizes :
        LET S1 == setFftSize(Cur, size)
        IN  /\ S1.currentFftSize = currentFftSize
            /\ S1.spectrogramData = spectrogramData
            /\ S1 = Cur

\* setFftSize was called with a rejected size while audio was cached and
\* frames were computed: the size is still the initial one, which is not
\* among the accepted sizes passed
C13_Witness ==
    /\ lastOp = "setFftSize"
    /\ DefaultFftSize \notin FftSizes
    /\ currentFftSize = DefaultFftSize
    /\ cachedAudioBuffer # Null
    /\ spectrogramData.frames > 0

\* C15: after destroy(), called in any reachable state, a drag or a box
\* selection in progress included, dragState and selectionBox are null, the
\* selection, the set of active notes and the note list are empty, and
\* neither the container nor the document has a pointer listener left.
C15_DestroyReleasesAll ==
    LET S1 == destroy(Cur)
    IN  /\ S1.dragState = Null
        /\ S1.selectionBox = Null
        /\ S1.selectedNotes = <<>>
        /\ S1.activeNotes = <<>>
        /\ S1.notes = <<>>
        /\ S1.containerListeners = {}
        /\ S1.docListeners.mousemove = <<>>
        /\ S1.docListeners.mouseup = <<>>

\* destroy has just run on a plugin that had loaded notes and whose
\* playhead had been moved over them, and nothing is left
C15_Witness ==
    /\ lastOp = "destroy"
    /\ trackCount > 0
    /\ currentTime = 3
    /\ dragState = Null /\ selectionBox = Null
    /\ selectedNotes = <<>> /\ activeNotes = <<>> /\ notes = <<>>
    /\ containerListeners = {}
    /\ docListeners = [mousemove |-> <<>>, mouseup |-> <<>>]

\* the note's pitch is a MIDI number and its name spells that pitch
Canonical(n) ==
    /\ n.pitch \in 0..127
    /\ n.name = << <<"C", "C#", "D", "D#", "E", "F", "F#", "G", "G#", "A", "A#", "B">>
                     [n.pitch - 12 * (n.pitch \div 12) + 1],
                   (n.pitch \div 12) - 1 >>

\* every note loadNotes makes of an argument list in use, and loadCSV of
\* a file in use, is canonical
LoadedCanonical ==
    /\ \A inputs \in LoadInputs \cup GestureInputs \cup ImportInputs, pitchIsHz \in BOOLEAN :
          \A i \in 1..Len(inputs) :
              Canonical(normalizeNote(inputs[i], pitchIsHz))
    /\ \A rows \in CsvFiles, options \in CsvOptionSets :
          LET parsed == parseCSV(CsvText(rows), options)
          IN  \A i \in 1..Len(parsed) :
                  Canonical(normalizeNote(parsed[i], detectHz(parsed, options)))

Attached(type, h) == h \in Range(docListeners[type])

\* C16: the document-level drag listeners are attached exactly when
\* dragState is non-null and the document-level selection listeners exactly
\* when selectionBox is non-null; after every pointer-up both are null and
\* the document has no listener left.
C16_ListenersFollowGestures ==
    /\ Attached("mousemove", "onDragMove") <=> dragState # Null
    /\ Attached("mouseup", "onDragEnd") <=> dragState # Null
    /\ Attached("mousemove", "onSelectionDrag") <=> selectionBox # Null
    /\ Attached("mouseup", "onSelectionEnd") <=> selectionBox # Null
    /\ lastOp = "mouseup" =>
          /\ dragState = Null
          /\ selectionBox = Null
          /\ docListeners = [mousemove |-> <<>>, mouseup |-> <<>>]

\* a pointer-up has ended a drag and a box selection that were both in
\* progress, and the document has no listener left
C16_Witness ==
    /\ lastOp = "mouseup"
    /\ OfType(emitted, {"notedrag"}) # <<>>
    /\ OfType(emitted, {"selectionchange"}) # <<>>
    /\ dragState = Null /\ selectionBox = Null
    /\ docListeners = [mousemove |-> <<>>, mouseup |-> <<>>]

\* host sizes with a zero duration or a zero width
Degenerate ==
    {[Params(Cur) EXCEPT !.width = w, !.duration = d] :
        w \in {0, Width}, d \in {0, Duration}} \ {Params(Cur)}

\* C17: when the host duration is zero or the host width is zero, timeToPx
\* and pxToTime return 0 for every argument.
C17_DegenerateHostGivesZero ==
    \A params \in Degenerate :
        /\ \A time \in 0..Duration : timeToPx(time, params) = 0
        /\ \A px \in 0..Width : pxToTime(px, params) = [fin |-> 0]

\* the number of stored notes of pitch p
StoredAt(p) == Cardinality({i \in 1..Len(notes) : heap[notes[i]].pitch = p})

\* the number of inputs whose pitch, read as a MIDI number, is p
GivenAt(inputs, p) ==
    Cardinality({i \in 1..Len(inputs) :
                    (IF inputs[i].pitch < 0 THEN 0
                     ELSE IF inputs[i].pitch > 127 THEN 127
                     ELSE inputs[i].pitch) = p})

\* the stored pitches are the input pitches clamped to 0..127
StoredAsMidi(inputs) == \A p \in 0..127 : StoredAt(p) = GivenAt(inputs, p)

\* C18: with pitchIsHz explicitly false, loadNotes and loadCSV store every
\* numeric pitch as the MIDI number clamp(round(value)), values above 127
\* included; loadCSV without the flag does the same when no parsed pitch
\* exceeds 127.
C18_ExplicitFalseIsMidi ==
    /\ (lastOp = "loadNotes" /\ lastArgs # Null /\ ~lastArgs.pitchIsHz)
          => StoredAsMidi(lastArgs.notes)
    /\ (lastOp = "loadCSV") =>
          LET options == lastArgs.options
              parsed == parseCSV(CsvText(lastArgs.rows), options)
          IN  /\ (Has(options, "pitchIsHz") /\ ~options.pitchIsHz) => StoredAsMidi(parsed)
              /\ (~Has(options, "pitchIsHz") /\ \A i \in 1..Len(parsed) : parsed[i].pitch <= 127)
                    => StoredAsMidi(parsed)

\* the rows of a file that loadCSV reads as data: those after the leading
\* empty rows and, with hasHeader, after the first row that is left
RECURSIVE DataRows(_, _)
DataRows(rows, hasHeader) ==
    IF rows = <<>> THEN <<>>
    ELSE IF rows[1].kind = "empty" THEN DataRows(Tail(rows), hasHeader)
    ELSE IF hasHeader THEN Tail(rows)
    ELSE rows

\* C19: loadCSV skips malformed rows: a non-empty row with an onset, pitch
\* or duration column that does not parse contributes no note and every
\* other non-empty data row exactly one, so that the number of notes loaded
\* is the number of well-formed data rows.
C19_CsvLoadsWellFormedRows ==
    lastOp = "loadCSV" =>
        LET data == DataRows(lastArgs.rows, Option(lastArgs.options, "hasHeader"))
        IN  Len(notes) = Cardinality({i \in 1..Len(data) : data[i].kind = "note"})

\* a file with a note row, a row that lacks a column and a row with an
\* empty column has been loaded without a header, and one note is stored
C19_Witness ==
    /\ lastOp = "loadCSV"
    /\ ~Option(lastArgs.options, "hasHeader")
    /\ Len(lastArgs.rows) = 3
    /\ lastArgs.rows[1].kind = "note"
    /\ lastArgs.rows[2].kind = "malformed"
    /\ lastArgs.rows[3].kind = "malformed"
    /\ Len(notes) = 1

\* C20: whatever the pointer-move and pointer-leave events on the
\* container, a notehover is emitted only when the hit note changes: no
\* notehover carries the note (or the null) of the notehover before it.
C20_HoverOnlyOnChange ==
    [][\A i \in 1..Len(emitted') :
          emitted'[i].type = "notehover" => emitted'[i].note # lastHover]_vars

\* C21: every note created by a double-click at any pointer position inside
\* the container, including the right edge where the pointer time equals the
\* total duration, has onset >= 0 and offset strictly greater than onset.
C21_CreatedNoteHasExtent ==
    (lastOp = "dblclick" /\ emitted # <<>> /\ emitted[1].type = "notecreate")
    => /\ emitted[1].val.onset >= 0
       /\ emitted[1].val.offset > emitted[1].val.onset

\* the string is a note name: a letter from A to G in either case, an
\* optional # or b, and an octave number, which may be negative
IsNoteName(name) ==
    LET n == Len(name)
        k == IF n >= 2 /\ name[2] \in {"#", "b"} THEN 3 ELSE 2
        j == IF n >= k /\ name[k] = "-" THEN k + 1 ELSE k
    IN  /\ n >= 1
        /\ name[1] \in {"A", "B", "C", "D", "E", "F", "G", "a", "b", "c", "d", "e", "f", "g"}
        /\ j <= n
        /\ \A i \in j..n : name[i] \in {"0", "1", "2", "3", "4", "5", "6", "7", "8", "9"}

\* C22: loadNotes called with an input list that contains an invalid
\* note-name pitch aborts with an error and leaves the note list,
\* usedPitches, the pitch range and trackCount exactly as they were, and
\* emits no load event.
C22_InvalidNameAbortsLoad ==
    \A inputs \in NamedInputs, pitchIsHz \in BOOLEAN :
        (\E i \in 1..Len(inputs) :
            Has(inputs[i], "pitchName") /\ ~IsNoteName(inputs[i].pitchName))
        => LET S1 == loadNotes(Cur, inputs, pitchIsHz)
           IN  /\ S1.error # Null
               /\ S1.notes = notes
               /\ \A id \in Range(notes) : S1.heap[id] = heap[id]
               /\ S1.usedPitches = usedPitches
               /\ <<S1.minPitch, S1.maxPitch>> = <<minPitch, maxPitch>>
               /\ S1.trackCount = trackCount
               /\ OfType(S1.emitted, {"load"}) = <<>>

\* a list whose second input has an invalid name has just been passed to
\* a store that held two notes of two tracks, and the store still holds them
C22_Witness ==
    /\ lastOp = "loadNotes"
    /\ Len(lastArgs.notes) = 2
    /\ Has(lastArgs.notes[2], "pitchName")
    /\ ~IsNoteName(lastArgs.notes[2].pitchName)
    /\ emitted = <<>>
    /\ Len(notes) = 2
    /\ trackCount = 2
    /\ heap[notes[1]].track = 1
    /\ usedPitches = <<1, 71>>

\* the bins of the largest magnitude of the frame transformed
PeakBins ==
    {k \in DOMAIN fftFrame.magnitudes :
        \A i \in DOMAIN fftFrame.magnitudes : fftFrame.magnitudes[k] >= fftFrame.magnitudes[i]}

\* Math.round(f / sr * N)
NearestBin == RoundDiv(fftFrame.stepsPerSample * fftFrame.fftSize, TurnSteps)

\* f is a whole number of bins, from 1 to N / 2 - 1
OnBin ==
    /\ (fftFrame.stepsPerSample * fftFrame.fftSize) % TurnSteps = 0
    /\ NearestBin \in 1..(fftFrame.fftSize \div 2 - 1)

ProbeX == {0, 3, 4, 10, 16, 28, 30, 31, 34, 36, 50, 60}

ProbeY == {106, 127, 128, 131, 132, 133}

\* the positions in the list of the visible notes whose rectangle contains
\* the point
HitsAt(R, n, x, y) ==
    {i \in 1..Len(notes) : notes[i] \in DOMAIN R /\ Overlaps(R[notes[i]], n, x, y, x, y)}

\* C24: findNoteAtPosition(x, y) returns the first note in list order whose
\* pitch is within [minPitch, maxPitch], which is visible under the current
\* fold state, and whose rectangle contains the point (noteX <= x <= noteX +
\* max(width, 2) and noteY <= y <= noteY + rowHeight - 1); it returns null
\* exactly when no stored note satisfies these conditions.
C24_FirstHitInListOrder ==
    LET R == NoteRects
        n == Rows(Params(Cur))
    IN  \A x \in ProbeX, y \in ProbeY :
            LET hits == HitsAt(R, n, x, y)
                found == findNoteAtPosition(Cur, x, y)
            IN  /\ (found = 0) = (hits = {})
                /\ hits # {} => \E i \in hits : /\ found = notes[i]
                                                /\ \A j \in hits : i <= j

\* a double-click fell on a point that the rectangles of two notes contain,
\* and hit the first of them in list order
C24_Witness ==
    /\ lastOp = "dblclick"
    /\ emitted = <<>>
    /\ \E x \in EditX, y \in EditY :
          /\ Cardinality(HitsAt(NoteRects, Rows(Params(Cur)), x, y)) = 2
          /\ findNoteAtPosition(Cur, x, y) = notes[1]

\* C25: a press at x on a hit note starts a resize-left drag when x is less
\* than 8 px from the left edge of the note's rectangle, otherwise a
\* resize-right drag when x is less than 8 px from its right edge (left edge
\* + max(width, 2)), otherwise a move drag; so the left edge wins where both
\* apply, and no press on a note narrower than 8 px starts a move.
C25_DragModeByEdges ==
    LET R == NoteRects
        n == Rows(Params(Cur))
    IN  \A x \in ProbeX, y \in {106, 128} :
            HitsAt(R, n, x, y) # {}
            => LET d == onMouseDown(Cur, x, y, FALSE).dragState
                   r == R[d.note]
                   nearLeft == x - r.left < 8
                   nearRight == r.right - x < 8
               IN  /\ nearLeft => d.mode = "resize-left"
                   /\ ~nearLeft /\ nearRight => d.mode = "resize-right"
                   /\ ~nearLeft /\ ~nearRight => d.mode = "move"
                   /\ r.right - r.left < 8 => d.mode # "move"

\* a press less than 8 px from both edges of a note began a resize-left drag
C25_Witness ==
    /\ lastOp = "mousedown"
    /\ dragState # Null
    /\ dragState.mode = "resize-left"
    /\ dragState.note \in DOMAIN NoteRects
    /\ LET r == NoteRects[dragState.note]
       IN  /\ dragState.startX - r.left < 8
           /\ r.right - dragState.startX < 8

\* a pointer-move went to a move drag of one note only
SingleMoveStep ==
    /\ lastOp = "mousemove"
    /\ dragState # Null
    /\ dragState.mode = "move"
    /\ dragState.multiDrag = Null

\* C26 as stated: after every pointer-move of a single-note move drag,
\* wherever the pointer is, the note's onset lies in [0, totalDuration -
\* noteDuration], its duration is the duration at pointer-down and its pitch
\* lies in [0, 127].
C26_SingleMoveInTrack ==
    SingleMoveStep
    => LET n == heap[dragState.note]
       IN  /\ n.onset >= 0
           /\ n.onset <= Duration - n.duration
           /\ n.duration = dragState.originalNote.duration
           /\ n.pitch \in 0..127

\* C26, amended: the same for a note that is not longer than the track.
C26_FittingNoteInTrack ==
    SingleMoveStep /\ dragState.originalNote.duration <= Duration
    => LET n == heap[dragState.note]
       IN  /\ n.onset >= 0
           /\ n.onset <= Duration - n.duration
           /\ n.duration = dragState.originalNote.duration
           /\ n.pitch \in 0..127

\* the pointer went out of the container past its right and top borders: the
\* note stopped at the end of the track and at the highest pitch
C26_Witness ==
    /\ SingleMoveStep
    /\ lastArgs = [x |-> 80, y |-> -50]
    /\ dragState.originalNote.duration <= Duration
    /\ dragState.originalNote.pitch = 123
    /\ heap[dragState.note].onset = Duration - dragState.originalNote.duration
    /\ heap[dragState.note].pitch = 127

\* pointer positions of moves, inside and outside the container
MoveX == {-20, 16, 80}

MoveY == {-50, 106, 128, 300}

\* positions the pointer passes on its way to another position
Detours == {<<-20, -50>>, <<16, 128>>, <<80, 300>>}

\* a drag is under way and the document's mousemove reaches it
Dragging == dragState # Null /\ "onDragMove" \in Range(docListeners.mousemove)

\* C27: during a move, multi-move or resize drag the notes after a
\* pointer-move depend only on the pointer position and on the state at
\* pointer-down: a pointer-move to a position leaves every note as a move to
\* another position followed by a move to that position does, so two
\* sequences of moves that end at one position give the same notes.
C27_PathIndependent ==
    Dragging
    => \A x \in MoveX, y \in MoveY :
          LET direct == onDragMove(Cur, x, y)
          IN  \A p \in Detours :
                  onDragMove(onDragMove(Cur, p[1], p[2]), x, y).heap = direct.heap

\* a pointer-move of a multi-move drag led to notes that a detour of the
\* pointer out of the container and back to that position gives again
C27_Witness ==
    /\ Dragging
    /\ lastOp = "mousemove"
    /\ lastArgs = [x |-> 80, y |-> 106]
    /\ dragState.multiDrag # Null
    /\ heap[dragState.note].onset # dragState.originalNote.onset
    /\ LET away == onDragMove(Cur, -20, 300)
       IN  /\ away.heap # heap
           /\ onDragMove(away, 80, 106).heap = heap

\* C28: when a move drag started on a note of a selection of two or more
\* notes, a pointer-move sets every selected note i to onset =
\* clamp(original_i.onset + dt, 0, totalDuration - original_i.duration),
\* offset = onset + original_i.duration and pitch = clamp(original_i.pitch +
\* dp, 0, 127), where dt is the time of the pointer, less the grab offset,
\* minus the dragged note's onset at pointer-down and dp is the pointer's
\* pitch minus the dragged note's pitch at pointer-down; a pointer-move of a
\* resize drag on a selected note changes that note only.
C28_SelectionMovesTogether ==
    Dragging
    => LET d == dragState
           P == Params(Cur)
       IN  /\ d.mode = "move" /\ d.multiDrag # Null
              => /\ Len(d.multiDrag.notes) >= 2
                 /\ d.note \in Range(d.multiDrag.notes)
                 /\ \A x \in MoveX, y \in MoveY :
                       LET S1 == onDragMove(Cur, x, y)
                           dt == ((x - d.offsetX) * Duration) \div Width - d.originalNote.onset
                           dp == pxToPitch(y * Rows(P), P) - d.originalNote.pitch
                       IN  \A i \in 1..Len(d.multiDrag.notes) :
                               LET n == S1.heap[d.multiDrag.notes[i]]
                                   orig == d.multiDrag.originals[i]
                                   lo == orig.onset + dt
                                   hi == Duration - orig.duration
                                   onset == IF lo > hi THEN Max(0, hi) ELSE Max(0, lo)
                                   to == orig.pitch + dp
                               IN  /\ n.onset = onset
                                   /\ n.offset = onset + orig.duration
                                   /\ n.pitch = IF to > 127 THEN 127
                                                ELSE IF to < 0 THEN 0 ELSE to
           /\ d.mode # "move" /\ d.note \in Range(selectedNotes) /\ Len(selectedNotes) >= 2
              => /\ d.multiDrag = Null
                 /\ \A x \in MoveX, y \in MoveY :
                       \A id \in DOMAIN heap \ {d.note} :
                           onDragMove(Cur, x, y).heap[id] = heap[id]

\* a drag of two selected notes went past the right and top borders of the
\* container: each note stopped at the end of the track and at pitch 127
C28_Witness ==
    /\ Dragging
    /\ lastOp = "mousemove"
    /\ lastArgs = [x |-> 80, y |-> -50]
    /\ dragState.mode = "move"
    /\ dragState.multiDrag # Null
    /\ Len(dragState.multiDrag.notes) = 2
    /\ dragState.multiDrag.originals[1].pitch # dragState.multiDrag.originals[2].pitch
    /\ \A i \in 1..2 :
          LET n == heap[dragState.multiDrag.notes[i]]
          IN  n.pitch = 127 /\ n.onset = Duration - dragState.multiDrag.originals[i].duration

\* C29: after every pointer-move of a resize drag on any stored note, the
\* note's duration is offset - onset and at least the minimum note duration,
\* its onset is at least 0 and its offset at most the total duration, and
\* the edge that is not dragged and the pitch are as at pointer-down.
C29_ResizeKeepsNoteValid ==
    /\ lastOp = "mousemove"
    /\ dragState # Null
    /\ dragState.mode # "move"
    => LET n == heap[dragState.note]
           orig == dragState.originalNote
       IN  /\ n.duration = n.offset - n.onset
           /\ n.duration >= MIN_NOTE_DURATION
           /\ n.onset >= 0
           /\ n.offset <= Duration
           /\ n.pitch = orig.pitch
           /\ dragState.mode = "resize-left" => n.offset = orig.offset
           /\ dragState.mode = "resize-right" => n.onset = orig.onset

\* the previews of a pointer-move from S0 to S1 obey the rule: at most one
\* is triggered, it carries the pointer's pitch q, which differs from the
\* pitch `last` of the preview before it, and none is triggered when the
\* pointer's pitch is `kept`, its pitch of the move before
PreviewRule(S0, S1, q, last, kept) ==
    LET before == Len(S0.previewed)
        after == Len(S1.previewed)
    IN  /\ after \in {before, before + 1}
        /\ after = before + 1 => S1.previewed[after] = q /\ q # last
        /\ q = kept => after = before

\* the pitch of the latest preview, or `initial` when there was none
LastPreview(S, initial) ==
    IF S.previewed = <<>> THEN initial ELSE S.previewed[Len(S.previewed)]

\* C30: during a move drag with preview enabled, a pointer-move triggers a
\* preview only when the pointer's quantized pitch differs from the pitch of
\* the previous preview of the drag, which is at first the note's pitch at
\* pointer-down: consecutive previews of a drag differ in pitch, and a
\* pointer-move that keeps the pitch triggers none. Checked on every three
\* pointer-moves that follow a pointer-down.
C30_PreviewOnPitchChange ==
    /\ lastOp = "mousedown"
    /\ Dragging
    /\ dragState.mode = "move"
    /\ previewEnabled
    => LET P == Params(Cur)
           n == Rows(P)
           p0 == dragState.originalNote.pitch
       IN  \A x \in {16, 80}, y1 \in MoveY, y2 \in MoveY, y3 \in MoveY :
               LET S1 == onDragMove(Cur, x, y1)
                   S2 == onDragMove(S1, 16, y2)
                   S3 == onDragMove(S2, x, y3)
                   q1 == pxToPitch(y1 * n, P)
                   q2 == pxToPitch(y2 * n, P)
                   q3 == pxToPitch(y3 * n, P)
               IN  /\ PreviewRule(Cur, S1, q1, p0, p0)
                   /\ PreviewRule(S1, S2, q2, LastPreview(S1, p0), q1)
                   /\ PreviewRule(S2, S3, q3, LastPreview(S2, p0), q2)
                   /\ \A k \in 1..(Len(S3.previewed) - 1) :
                          S3.previewed[k] # S3.previewed[k + 1]

\* a pointer-move of a move drag with preview enabled changed the pitch of
\* the note, and the preview of the new pitch was triggered
C30_Witness ==
    /\ lastOp = "mousemove"
    /\ Dragging
    /\ dragState.mode = "move"
    /\ previewEnabled
    /\ dragState.lastPreviewPitch # dragState.originalNote.pitch
    /\ dragState.lastPreviewPitch = heap[dragState.note].pitch
    /\ onDragMove(Cur, lastArgs.x, lastArgs.y).previewed = <<>>
    /\ onDragMove(Cur, lastArgs.x, 300).previewed # <<>>

\* C31: in every state reached by decode events and setFftSize calls, valid
\* or not, in any order, the spectrogram is empty or all its frames have
\* currentFftSize / 2 magnitudes: it is replaced as a whole and holds no
\* frames computed with another FFT size.
C31_FramesMatchFftSize ==
    \/ spectrogramData.frames = 0
    \/ spectrogramData.bins * 2 = currentFftSize

\* setFftSize changed the size while frames of the old size were stored, and
\* the frames now stored have the new length
C31_Witness ==
    /\ lastOp = "setFftSize"
    /\ currentFftSize = 2048
    /\ spectrogramData.frames > 0
    /\ spectrogramData.bins = 1024

\* C32: for n samples, FFT size N and hop h >= 1, calculateSpectrogram
\* returns floor((n - N) / h) + 1 frames when n >= N and none when n < N,
\* every frame has N / 2 magnitudes, and the window [k * h, k * h + N) of
\* frame k lies inside the buffer.
C32_FrameCountAndWindows ==
    fftFrame # Null /\ fftFrame.pc \in {"frames", "returned"}
    => LET n == fftFrame.length
           N == fftFrame.fftSize
           h == fftFrame.hopSize
           frames == fftFrame.spectrogram
       IN  /\ fftFrame.pc = "returned"
              => Len(frames) = IF n >= N THEN (n - N) \div h + 1 ELSE 0
           /\ \A k \in 1..Len(frames) :
                 /\ frames[k].magnitudes * 2 = N
                 /\ frames[k].start = (k - 1) * h
                 /\ frames[k].start >= 0
                 /\ frames[k].last < n

\* a buffer that the hop does not divide evenly gave four frames of 8
\* samples, the last of which ends before the end of the buffer
C32_Witness ==
    /\ fftFrame # Null
    /\ fftFrame.pc = "returned"
    /\ fftFrame.length = 19
    /\ fftFrame.fftSize = 8
    /\ fftFrame.hopSize = 3
    /\ Len(fftFrame.spectrogram) = 4
    /\ fftFrame.spectrogram[4].last = 16

\* C33: after a load of a list that is not empty, with no minPitch or
\* maxPitch option, minPitch = max(0, floor((lowest - 2) / 12) * 12) and
\* maxPitch = min(127, ceil((highest + 2) / 12) * 12 + 11), so 0 <= minPitch
\* <= maxPitch <= 127 and the pitch of every loaded note lies in [minPitch,
\* maxPitch].
C33_RangeCoversLoadedNotes ==
    lastOp \in {"loadNotes", "loadCSV"} /\ notes # <<>>
    => LET loaded == {heap[notes[i]].pitch : i \in 1..Len(notes)}
           lowest == CHOOSE a \in loaded : \A b \in loaded : a <= b
           highest == CHOOSE a \in loaded : \A b \in loaded : a >= b
           low == ((lowest - 2) \div 12) * 12
           high == ((highest + 2 + 11) \div 12) * 12 + 11
       IN  /\ minPitch = IF low < 0 THEN 0 ELSE low
           /\ maxPitch = IF high > 127 THEN 127 ELSE high
           /\ 0 <= minPitch /\ minPitch <= maxPitch /\ maxPitch <= 127
           /\ \A p \in loaded : minPitch <= p /\ p <= maxPitch

\* notes of the lowest and of the highest MIDI pitch were loaded: the padded
\* range was cut at both ends
C33_Witness ==
    /\ lastOp = "loadNotes"
    /\ {heap[notes[i]].pitch : i \in 1..Len(notes)} = {0, 127}
    /\ minPitch = 0
    /\ maxPitch = 127

\* bins and search radii of the pointer positions of the double-clicks
SnapBins == {18, 21, 35}
SnapRadii == {2, 4}

\* the first and the last frame of the longest run of frames around
\* frameIndex in which five times the magnitude of bin peakBin is at least
\* level, the frame of the click counted in
MaximalRun(data, frameIndex, peakBin, level) ==
    LET Strong(f) == f = frameIndex \/ 5 * Mag(data[f + 1], peakBin) >= level
        first == CHOOSE g \in 0..frameIndex :
                     /\ \A f \in g..frameIndex : Strong(f)
                     /\ g > 0 => ~Strong(g - 1)
        last == CHOOSE g \in frameIndex..(Len(data) - 1) :
                    /\ \A f \in frameIndex..g : Strong(f)
                    /\ g < Len(data) - 1 => ~Strong(g + 1)
    IN  [onsetFrame |-> first, offsetFrame |-> last]

\* C34 as stated: the onset frame is the first frame of the longest run of
\* frames ending at the click frame in which the magnitude of the peak bin is
\* at least 20% of the peak magnitude found in the local peak search, and the
\* offset frame is the last frame of the longest such run starting there.
C34_RunAbovePeakThreshold ==
    spectrogramData.frames > 0 =>
        \A frameIndex \in 0..(spectrogramData.frames - 1), bin \in SnapBins,
           searchRadius \in SnapRadii :
            LET data == spectrogramData.data
                found == scanFrames(data, spectrogramData.bins, frameIndex, bin, searchRadius)
            IN  found # Null =>
                    LET run == MaximalRun(data, frameIndex, found.peakBin,
                                          Mag(data[frameIndex + 1], found.peakBin))
                    IN  /\ found.onsetFrame = run.onsetFrame
                        /\ found.offsetFrame = run.offsetFrame

\* C34, amended: the onset frame is the first frame of the longest run of
\* frames ending at the click frame in which the magnitude of the peak bin is
\* at least 20% of the magnitude at the clicked bin of the click frame, and
\* the offset frame is the last frame of the longest such run starting there.
C34_RunAboveClickThreshold ==
    spectrogramData.frames > 0 =>
        \A frameIndex \in 0..(spectrogramData.frames - 1), bin \in SnapBins,
           searchRadius \in SnapRadii :
            LET data == spectrogramData.data
                found == scanFrames(data, spectrogramData.bins, frameIndex, bin, searchRadius)
            IN  found # Null =>
                    LET run == MaximalRun(data, frameIndex, found.peakBin,
                                          Mag(data[frameIndex + 1], bin))
                    IN  /\ found.onsetFrame = run.onsetFrame
                        /\ found.offsetFrame = run.offsetFrame

\* a snapped double-click in the second of four frames made a note of the
\* peak's pitch that runs from that frame to the end: the frames after it
\* stay above 20% of the clicked magnitude, the last of them below 20% of
\* the peak's
C34_Witness ==
    /\ lastOp = "dblclick" /\ snapEnabled
    /\ spectrogramData.frames = 4
    /\ lastArgs = [x |-> 16, y |-> 106]
    /\ Len(notes) = 1
    /\ heap[notes[1]].pitch = 62
    /\ heap[notes[1]].onset = 10
    /\ heap[notes[1]].offset = Duration
    /\ scanFrames(spectrogramData.data, spectrogramData.bins, 1, 35, 4)
         = [peakBin |-> 37, onsetFrame |-> 1, offsetFrame |-> 3]

\* C40: every note that a double-click creates with snap enabled and a
\* spectrogram that is not empty, of any frame count, has times that are
\* numbers with 0 <= onset < offset <= totalDuration, whether the detection
\* succeeds, falls back to the plain placement or forces the default length.
C40_SnappedNoteWellFormed ==
    snapEnabled /\ spectrogramData.frames > 0 =>
        \A x \in EditX, y \in EditY :
            findNoteAtPosition(Cur, x, y) = 0 =>
                LET new == noteAtDoubleClick(Cur, x, y)
                IN  /\ new.onset # NaN
                    /\ new.offset # NaN
                    /\ 0 <= new.onset.fin
                    /\ new.onset.fin < new.offset.fin
                    /\ new.offset.fin <= Duration

\* C35: in every reachable state every selected note is a member of the note
\* list: after a shift+click deletion, deleteSelectedNotes, a load and
\* clearNotes the selection holds no note that left the store.
C35_SelectionInStore == Range(selectedNotes) \subseteq Range(notes)

\* C36: in every reachable state minPitch <= maxPitch, so that the display
\* pitches are never empty and the row height is never a division by zero:
\* after setPitchRange with any arguments, after any load and after
\* clearNotes.
C36_PitchRangeOrdered ==
    /\ minPitch <= maxPitch
    /\ Len(getDisplayPitches(Params(Cur))) > 0

\* C37: a note that could be hit before a move drag can still be hit after
\* it: after every pointer-move of a move drag, inside the container or out
\* of it above or below, the pitch of each moved note lies in [minPitch,
\* maxPitch] and, when the rows are folded, among the used pitches.
C37_MovedNoteStaysVisible ==
    lastOp = "mousemove" /\ dragState # Null /\ dragState.mode = "move"
    => LET InRows(pitch) ==
               IF isFolded /\ Len(usedPitches) > 0
               THEN pitch \in Range(usedPitches)
               ELSE minPitch <= pitch /\ pitch <= maxPitch
       IN  /\ InRows(dragState.originalNote.pitch)
              => InRows(heap[dragState.note].pitch)
           /\ dragState.multiDrag # Null
              => \A i \in 1..Len(dragState.multiDrag.notes) :
                     InRows(dragState.multiDrag.originals[i].pitch)
                     => InRows(heap[dragState.multiDrag.notes[i]].pitch)

\* C38: two double-clicks in a row at one position, with snap off, create at
\* most one note: the note the first one creates contains the position, so
\* the second one finds it and creates nothing.
C38_SecondDoubleClickCreatesNothing ==
    ~snapEnabled =>
        \A x \in EditX, y \in EditY :
            LET S1 == onDoubleClick(Cur, x, y)
                S2 == onDoubleClick(S1, x, y)
            IN  /\ Len(S2.notes) <= Len(notes) + 1
                /\ Len(S1.notes) = Len(notes) + 1 => findNoteAtPosition(S1, x, y) # 0

\* C39: while a drag is under way the dragged note, and each note of a
\* multi-move, is a member of the note list, whatever loads, clearNotes,
\* deleteSelectedNotes or shift+pointer-down deletions come between its
\* events, and no notedrag or noteresize event is emitted for a note that is
\* not in the store.
C39_DraggedNotesInStore ==
    /\ dragState # Null
       => /\ dragState.note \in Range(notes)
          /\ Has(dragState, "multiDrag") /\ dragState.multiDrag # Null
             => Range(dragState.multiDrag.notes) \subseteq Range(notes)
    /\ \A i \in 1..Len(emitted) :
           emitted[i].type \in {"notedrag", "noteresize"}
           => emitted[i].note \in Range(notes)

=============================================================================
